---- MODULE Spec2Model ----
(***************************************************************************)
(* Model of the event-consistency substrate of floroz/gavel:               *)
(*   - AuctionService.PlaceBid  (bid + highest bid + outbox row, one tx)    *)
(*   - OutboxRelay.Run / processBatch  (poll, publish, mark, commit)       *)
(*   - RabbitMQPublisher.Publish and the topic exchange "auction.events"   *)
(*   - BidConsumer.Run and userstats.Service.ProcessBidPlaced              *)
(* The relational store is modelled as PostgreSQL READ COMMITTED: writes   *)
(* of a transaction are buffered in the transaction and become visible at  *)
(* commit; row locks (FOR UPDATE, FOR UPDATE SKIP LOCKED, the lock an       *)
(* upsert takes) are held until commit or rollback.                        *)
(***************************************************************************)
EXTENDS Integers, Sequences, FiniteSets, TLC

\* ------------------------------------------------------------------ bounds
MaxCalls == 2
MaxTime == 2
MaxFaults == 1

Calls == 1 .. MaxCalls
Amounts == 0 .. MaxCalls
Times == 0 .. MaxTime

\* ------------------------------------------------------------ seeded data
\* Two rows of items (seller "s", current_highest_bid 0, end_at one instant
\* before the end of the modelled time); "ghost" is an id with no row. The
\* single-auction scenarios bid on "i1" and on the unknown id only.
Items == {"i1", "i2"}
ItemIds == {"i1", "ghost"}
AllItemIds == Items \cup {"ghost"}
Users == {"s", "u1", "u2"}
SellerOf(i) == "s"
EndAtOf(i) == MaxTime - 1

NoRow == [status |-> "none"]

\* Two relay instances on the same outbox table, configured with different
\* batch sizes; the exchange is fixed per deployment.
Relays == {"r1", "r2"}
NoRelay == "none"
MaxBatch == 2
MaxDeliveries == 3
MaxCancels == 2
MaxRegs == 2
MaxRefresh == 2
BatchSizeOf(r) == IF r = "r1" THEN MaxBatch ELSE 1
Exchange == "auction.events"

\* Two replicas of the analytics consumer on the queue user_stats_bids.
Consumers == {"w1", "w2"}
NoStats == [totalBids |-> 0, totalAmount |-> 0, lastBidAt |-> -1]

VARIABLES
    now,        \* the wall clock (time.Now())
    faults,     \* injected infrastructure failures and crashes so far
    call,       \* call[c]: one PlaceBid invocation, its position and its tx
    chb,        \* items.current_highest_bid, committed
    itemLock,   \* per items row, the calls holding its row lock
    bids,       \* committed rows of bids
    outbox,     \* committed rows of outbox_events, by event id
    outboxLock, \* outbox_events row lock holder (a relay) or NoRelay
    relay,      \* relay[r]: one OutboxRelay, its position and its tx
    pubCount,   \* per outbox row, publishes accepted by the broker so far
    ctxDone,    \* the relays whose Run context has been cancelled
    busLog,     \* every message the broker has accepted on the exchange
    queueBound, \* is the queue user_stats_bids declared and bound
    queue,      \* messages in user_stats_bids, oldest first
    cons,       \* cons[w]: one BidConsumer process, its delivery and its tx
    processed,  \* committed event ids of processed_events
    stats,      \* committed rows of user_stats, by user id
    statsLock,  \* per user_stats row, the consumers holding its row lock
    recvCount,  \* per event id, deliveries handed to a consumer so far
    itemStatus, \* items.status, committed
    cancel,     \* cancel[k]: one CancelItem invocation and its position
    users,      \* committed rows of users (auth service), by Register call
    userOutbox, \* committed rows of the auth service's outbox_events
    reg,        \* reg[g]: one Register invocation, its position and its tx
    tokens,     \* committed rows of refresh_tokens: state of each token
    tokenLock,  \* per refresh_tokens row, the Refresh calls holding its lock
    refresh     \* refresh[f]: one Refresh invocation, its position and its tx

bidVars == <<call, chb, itemLock, bids>>
relayVars == <<outboxLock, relay, pubCount, ctxDone>>
busVars == <<busLog, queueBound, queue>>
consVars == <<cons, processed, stats, statsLock, recvCount>>
itemVars == <<itemStatus, cancel>>
authVars == <<users, userOutbox, reg, tokens, tokenLock, refresh>>
vars == <<now, faults, call, chb, itemLock, bids, outbox,
          outboxLock, relay, pubCount, ctxDone, busLog, queueBound, queue,
          cons, processed, stats, statsLock, recvCount, itemStatus, cancel,
          users, userOutbox, reg, tokens, tokenLock, refresh>>

\* ------------------------------------------------------------------ clock
Tick ==
    /\ now < MaxTime
    /\ now' = now + 1
    /\ UNCHANGED <<itemVars, authVars,
                   faults, bidVars, outbox, relayVars, busVars, consVars>>

\* --------------------------------------------------------------- PlaceBid
IdleCall ==
    [pc |-> "idle", item |-> "none", user |-> "none", amount |-> 0,
     seenChb |-> 0, bidAt |-> 0, evAt |-> 0,
     txBid |-> FALSE, txChb |-> FALSE, txEv |-> FALSE, result |-> "none"]

\* Mutant: the comparison with the current highest bid is not strict.
validateBidAmountNonStrict(bidAmount, currentHighest) ==
    IF bidAmount <= 0 THEN "InvalidBidAmount"
    ELSE IF bidAmount < currentHighest THEN "BidTooLow"
    ELSE "ok"

\* Mutant: the amount is compared with the highest bid less one.
validateBidAmountOffByOne(bidAmount, currentHighest) ==
    IF bidAmount <= 0 THEN "InvalidBidAmount"
    ELSE IF bidAmount <= currentHighest - 1 THEN "BidTooLow"
    ELSE "ok"

validateBidAmount(bidAmount, currentHighest) ==
    IF bidAmount <= 0 THEN "InvalidBidAmount"
    ELSE IF bidAmount <= currentHighest THEN "BidTooLow"
    ELSE "ok"

validateAuctionNotEnded(t, endAt) ==
    IF t > endAt THEN "AuctionEnded" ELSE "ok"

\* Mutant: the end of the auction is checked before the amount.
PlaceBidValidationEndFirst(seller, user, amount, currentHighest, t, endAt) ==
    IF seller = user THEN "SellerCannotBid"
    ELSE IF validateAuctionNotEnded(t, endAt) # "ok"
         THEN validateAuctionNotEnded(t, endAt)
    ELSE validateBidAmount(amount, currentHighest)

\* The checks of PlaceBid after the item row is read, in the code's order.
PlaceBidValidation(seller, user, amount, currentHighest, t, endAt) ==
    IF seller = user THEN "SellerCannotBid"
    ELSE IF validateBidAmount(amount, currentHighest) # "ok"
         THEN validateBidAmount(amount, currentHighest)
    ELSE validateAuctionNotEnded(t, endAt)

\* Mutant: the item row is read without FOR UPDATE.
ItemRowNeverLocked(i, c) == FALSE

\* FOR UPDATE waits while another transaction holds the row.
ItemRowLockedByOther(i, c) == itemLock[i] \ {c} # {}

\* Mutant: the end of the transaction leaves its row locks in place.
KeepItemLocks(c) == itemLock

\* Rollback / end of transaction: the row locks of call c are released.
ReleaseItemLocks(c) ==
    [i \in Items |-> itemLock[i] \ {c}]

\* PlaceBid returns res: the deferred Rollback discards the buffered writes.
ReturnError(c, res) ==
    /\ call' = [call EXCEPT ![c] =
                  [IdleCall EXCEPT !.pc = "done", !.item = call[c].item,
                                   !.user = call[c].user,
                                   !.amount = call[c].amount,
                                   !.result = res]]
    /\ itemLock' = ReleaseItemLocks(c)

BidRow(c) ==
    [id |-> c, item |-> call[c].item, user |-> call[c].user,
     amount |-> call[c].amount, createdAt |-> call[c].bidAt]

BidPlacedPayload(c) ==
    [bidId |-> c, itemId |-> call[c].item, userId |-> call[c].user,
     amount |-> call[c].amount, timestamp |-> call[c].bidAt]

OutboxRow(c) ==
    [status |-> "pending", eventType |-> "bid.placed",
     payload |-> BidPlacedPayload(c), createdAt |-> call[c].evAt,
     processedAt |-> -1]

\* Calls are interchangeable: they are started in the order of their ids.
MayStart(c) ==
    /\ call[c].pc = "idle"
    /\ \A d \in Calls : d < c => call[d].pc # "idle"

\* A PlaceBid call arrives with a command drawn from I x U x A and begins
\* its transaction.
PlaceBidBegin(c, I, U, A) ==
    /\ MayStart(c)
    /\ \E i \in I, u \in U, a \in A :
          call' = [call EXCEPT ![c] =
                     [IdleCall EXCEPT !.pc = "begun", !.item = i,
                                      !.user = u, !.amount = a]]
    /\ UNCHANGED <<itemVars, authVars,
                   now, faults, chb, itemLock, bids, outbox,
                 relayVars, busVars, consVars>>

PlaceBidBeginFail(c, I, U, A) ==
    /\ MayStart(c)
    /\ faults < MaxFaults
    /\ faults' = faults + 1
    /\ \E i \in I, u \in U, a \in A :
          call' = [call EXCEPT ![c] =
                     [IdleCall EXCEPT !.pc = "done", !.item = i,
                                      !.user = u, !.amount = a,
                                      !.result = "BeginFailed"]]
    /\ UNCHANGED <<itemVars, authVars,
                   now, chb, itemLock, bids, outbox,
                 relayVars, busVars, consVars>>

GetItemByIDForUpdate(c) ==
    /\ call[c].pc = "begun"
    /\ call[c].item \in Items
    /\ ~ItemRowLockedByOther(call[c].item, c)
    /\ itemLock' = [itemLock EXCEPT ![call[c].item] = {c}]
    /\ call' = [call EXCEPT ![c].pc = "validate",
                            ![c].seenChb = chb[call[c].item]]
    /\ UNCHANGED <<itemVars, authVars,
                   now, faults, chb, bids, outbox,
                 relayVars, busVars, consVars>>

GetItemNotFound(c) ==
    /\ call[c].pc = "begun"
    /\ call[c].item \notin Items
    /\ ReturnError(c, "ItemNotFound")
    /\ UNCHANGED <<itemVars, authVars,
                   now, faults, chb, bids, outbox,
                 relayVars, busVars, consVars>>

\* lock_timeout fires while the row is held by another transaction.
GetItemLockTimeout(c) ==
    /\ call[c].pc = "begun"
    /\ call[c].item \in Items
    /\ ItemRowLockedByOther(call[c].item, c)
    /\ ReturnError(c, "LockTimeout")
    /\ UNCHANGED <<itemVars, authVars,
                   now, faults, chb, bids, outbox,
                 relayVars, busVars, consVars>>

\* Mutant: the bid row is written through the pool before the checks.
ValidateRecordsBid(c) ==
    /\ call[c].pc = "validate"
    /\ LET i == call[c].item
           res == PlaceBidValidation(SellerOf(i), call[c].user,
                                     call[c].amount, call[c].seenChb,
                                     now, EndAtOf(i))
       IN IF res = "ok"
          THEN /\ call' = [call EXCEPT ![c].pc = "savebid"]
               /\ UNCHANGED <<itemLock, bids>>
          ELSE /\ ReturnError(c, res)
               /\ bids' = bids \cup {[BidRow(c) EXCEPT !.createdAt = now]}
    /\ UNCHANGED <<itemVars, authVars,
                   now, faults, chb, outbox,
                 relayVars, busVars, consVars>>

Validate(c) ==
    /\ call[c].pc = "validate"
    /\ LET i == call[c].item
           res == PlaceBidValidation(SellerOf(i), call[c].user,
                                     call[c].amount, call[c].seenChb,
                                     now, EndAtOf(i))
       IN IF res = "ok"
          THEN /\ call' = [call EXCEPT ![c].pc = "savebid"]
               /\ UNCHANGED itemLock
          ELSE ReturnError(c, res)
    /\ UNCHANGED <<itemVars, authVars,
                   now, faults, chb, bids, outbox,
                 relayVars, busVars, consVars>>

\* Mutant: the bid row is not inserted.
SaveBidSkipped(c) ==
    /\ call[c].pc = "savebid"
    /\ call' = [call EXCEPT ![c].pc = "update", ![c].bidAt = now]
    /\ UNCHANGED <<itemVars, authVars,
                   now, faults, chb, itemLock, bids, outbox,
                 relayVars, busVars, consVars>>

SaveBid(c) ==
    /\ call[c].pc = "savebid"
    /\ call' = [call EXCEPT ![c].pc = "update", ![c].txBid = TRUE,
                            ![c].bidAt = now]
    /\ UNCHANGED <<itemVars, authVars,
                   now, faults, chb, itemLock, bids, outbox,
                 relayVars, busVars, consVars>>

\* Mutant: the highest bid is written through the pool, outside the tx.
UpdateHighestBidOutsideTx(c) ==
    /\ call[c].pc = "update"
    /\ call' = [call EXCEPT ![c].pc = "saveevent"]
    /\ chb' = [chb EXCEPT ![call[c].item] = call[c].amount]
    /\ UNCHANGED <<itemVars, authVars,
                   now, faults, itemLock, bids, outbox,
                 relayVars, busVars, consVars>>

UpdateHighestBid(c) ==
    /\ call[c].pc = "update"
    /\ call' = [call EXCEPT ![c].pc = "saveevent", ![c].txChb = TRUE]
    /\ UNCHANGED <<itemVars, authVars,
                   now, faults, chb, itemLock, bids, outbox,
                 relayVars, busVars, consVars>>

\* Mutant: the outbox row is written through the pool, outside the tx.
SaveEventOutsideTx(c) ==
    /\ call[c].pc = "saveevent"
    /\ call' = [call EXCEPT ![c].pc = "commit", ![c].evAt = now]
    /\ outbox' = [outbox EXCEPT ![c] =
                    [OutboxRow(c) EXCEPT !.createdAt = now]]
    /\ UNCHANGED <<itemVars, authVars,
                   now, faults, chb, itemLock, bids,
                 relayVars, busVars, consVars>>

SaveEvent(c) ==
    /\ call[c].pc = "saveevent"
    /\ call' = [call EXCEPT ![c].pc = "commit", ![c].txEv = TRUE,
                            ![c].evAt = now]
    /\ UNCHANGED <<itemVars, authVars,
                   now, faults, chb, itemLock, bids, outbox,
                 relayVars, busVars, consVars>>

StoreErrorAt(pc) ==
    CASE pc = "begun" -> "GetItemFailed"
      [] pc = "savebid" -> "SaveBidFailed"
      [] pc = "update" -> "UpdateHighestBidFailed"
      [] pc = "saveevent" -> "SaveEventFailed"
      [] pc = "commit" -> "CommitFailed"

\* A store call of PlaceBid (or the commit) returns an error.
PlaceBidStoreFail(c) ==
    /\ call[c].pc \in {"begun", "savebid", "update", "saveevent", "commit"}
    /\ faults < MaxFaults
    /\ faults' = faults + 1
    /\ ReturnError(c, StoreErrorAt(call[c].pc))
    /\ UNCHANGED <<itemVars, authVars,
                   now, chb, bids, outbox,
                 relayVars, busVars, consVars>>

\* Mutant: the commit loses the update of current_highest_bid.
CommitSkipsHighestBid(c) ==
    /\ call[c].pc = "commit"
    /\ bids' = IF call[c].txBid THEN bids \cup {BidRow(c)} ELSE bids
    /\ chb' = chb
    /\ outbox' = IF call[c].txEv
                 THEN [outbox EXCEPT ![c] = OutboxRow(c)] ELSE outbox
    /\ call' = [call EXCEPT ![c] =
                  [IdleCall EXCEPT !.pc = "done", !.item = call[c].item,
                                   !.user = call[c].user,
                                   !.amount = call[c].amount,
                                   !.result = "ok"]]
    /\ itemLock' = ReleaseItemLocks(c)
    /\ UNCHANGED <<itemVars, authVars,
                   now, faults,
                 relayVars, busVars, consVars>>

Commit(c) ==
    /\ call[c].pc = "commit"
    /\ bids' = IF call[c].txBid THEN bids \cup {BidRow(c)} ELSE bids
    /\ chb' = IF call[c].txChb
              THEN [chb EXCEPT ![call[c].item] = call[c].amount] ELSE chb
    /\ outbox' = IF call[c].txEv
                 THEN [outbox EXCEPT ![c] = OutboxRow(c)] ELSE outbox
    /\ call' = [call EXCEPT ![c] =
                  [IdleCall EXCEPT !.pc = "done", !.item = call[c].item,
                                   !.user = call[c].user,
                                   !.amount = call[c].amount,
                                   !.result = "ok"]]
    /\ itemLock' = ReleaseItemLocks(c)
    /\ UNCHANGED <<itemVars, authVars,
                   now, faults,
                 relayVars, busVars, consVars>>

\* The process dies inside PlaceBid: the store aborts the open transaction.
PlaceBidCrash(c) ==
    /\ call[c].pc \notin {"idle", "done"}
    /\ faults < MaxFaults
    /\ faults' = faults + 1
    /\ ReturnError(c, "Crashed")
    /\ UNCHANGED <<itemVars, authVars,
                   now, chb, bids, outbox,
                 relayVars, busVars, consVars>>

PlaceBidStep(c, I, U, A) ==
    \/ PlaceBidBegin(c, I, U, A)
    \/ PlaceBidBeginFail(c, I, U, A)
    \/ GetItemByIDForUpdate(c)
    \/ GetItemNotFound(c)
    \/ GetItemLockTimeout(c)
    \/ Validate(c)
    \/ SaveBid(c)
    \/ UpdateHighestBid(c)
    \/ SaveEvent(c)
    \/ PlaceBidStoreFail(c)
    \/ Commit(c)
    \/ PlaceBidCrash(c)

\* The steps a running PlaceBid call takes by itself.
PlaceBidProgress(c) ==
    \/ GetItemByIDForUpdate(c)
    \/ GetItemNotFound(c)
    \/ GetItemLockTimeout(c)
    \/ Validate(c)
    \/ SaveBid(c)
    \/ UpdateHighestBid(c)
    \/ SaveEvent(c)
    \/ Commit(c)

\* The caller stalls inside the transaction with its connection alive (a
\* stopped process, a partitioned network): the store keeps the transaction
\* and its row lock, since BeginTx sets lock_timeout only and nothing bounds
\* the life of an open transaction. Only the death of the process
\* (PlaceBidCrash) ends it.
Hang(c) ==
    /\ call[c].pc \in {"validate", "savebid", "update", "saveevent", "commit"}
    /\ call' = [call EXCEPT ![c].pc = "hung"]
    /\ UNCHANGED <<itemVars, authVars,
                   now, faults, chb, itemLock, bids, outbox,
                 relayVars, busVars, consVars>>

\* ------------------------------------------------------------ OutboxRelay
EventIds == Calls

IdleRelay ==
    [pc |-> "idle", batch |-> <<>>, idx |-> 0, marked |-> {},
     ret |-> "none", lost |-> {}]

Range(f) == {f[x] : x \in DOMAIN f}

\* Mutant: the query has no LIMIT.
NoLimit(a, b) == b

Min(a, b) == IF a < b THEN a ELSE b

\* Mutant: the query has no WHERE status = 'pending'.
ClaimableAnyStatus ==
    {e \in EventIds : outbox[e] # NoRow /\ outboxLock[e] = NoRelay}

\* Mutant: the query has no FOR UPDATE SKIP LOCKED.
ClaimableIgnoringLocks ==
    {e \in EventIds : outbox[e].status = "pending"}

\* WHERE status = 'pending' ... FOR UPDATE SKIP LOCKED: the committed Pending
\* rows that no other transaction holds.
ClaimableRows ==
    {e \in EventIds : outbox[e].status = "pending" /\ outboxLock[e] = NoRelay}

\* Mutant: FOR UPDATE without SKIP LOCKED, the query waits while a Pending
\* row is held by another transaction.
PendingBatchesBlocking(limit) ==
    IF \E e \in EventIds :
          outbox[e].status = "pending" /\ outboxLock[e] # NoRelay
    THEN {}
    ELSE LET C == ClaimableRows
             k == Min(limit, Cardinality(C))
         IN {s \in [1 .. k -> C] :
               /\ \A a, b \in 1 .. k : a < b =>
                     /\ s[a] # s[b]
                     /\ outbox[s[a]].createdAt <= outbox[s[b]].createdAt
               /\ \A e \in C \ Range(s) : \A a \in 1 .. k :
                     outbox[s[a]].createdAt <= outbox[e].createdAt}

\* ORDER BY created_at ASC LIMIT limit: the first rows in created_at order
\* (rows with equal created_at in any order).
PendingBatches(limit) ==
    LET C == ClaimableRows
        k == Min(limit, Cardinality(C))
    IN {s \in [1 .. k -> C] :
          /\ \A a, b \in 1 .. k : a < b =>
                /\ s[a] # s[b]
                /\ outbox[s[a]].createdAt <= outbox[s[b]].createdAt
          /\ \A e \in C \ Range(s) : \A a \in 1 .. k :
                outbox[s[a]].createdAt <= outbox[e].createdAt}

\* Mutant: the rows stay locked when the transaction ends.
KeepOutboxLocks(r) == outboxLock

ReleaseOutboxLocks(r) ==
    [e \in EventIds |-> IF outboxLock[e] = r THEN NoRelay ELSE outboxLock[e]]

\* processBatch returns ret without committing: the deferred Rollback
\* discards the status updates and releases the claimed rows; Run logs the
\* error and waits for the next tick. (ret and lost record what the tick
\* returned and which rows it had claimed.)
RelayRollback(r, ret) ==
    /\ relay' = [relay EXCEPT ![r] =
                   [IdleRelay EXCEPT !.ret = ret,
                                     !.lost = Range(relay[r].batch)]]
    /\ outboxLock' = ReleaseOutboxLocks(r)

\* The topic exchange routes a message to the queue bound with its routing
\* key; mandatory = false: with no bound queue the message is dropped.
Routed(q, msg) ==
    IF queueBound /\ msg.routingKey = "bid.placed"
    THEN Append(q, msg.body) ELSE q

RelayBeginTx(r) ==
    /\ relay[r].pc = "idle"
    /\ r \notin ctxDone
    /\ relay' = [relay EXCEPT ![r] = [IdleRelay EXCEPT !.pc = "begun"]]
    /\ UNCHANGED <<itemVars, authVars,
                   now, ctxDone, faults, bidVars, outbox, outboxLock, pubCount,
                   busVars, consVars>>

GetPendingEvents(r) ==
    /\ relay[r].pc = "begun"
    /\ \E s \in PendingBatches(BatchSizeOf(r)) :
          IF s = <<>>
          THEN RelayRollback(r, "empty")
          ELSE /\ relay' = [relay EXCEPT ![r].pc = "publish",
                                         ![r].batch = s, ![r].idx = 1]
               /\ outboxLock' = [e \in EventIds |->
                                   IF e \in Range(s) THEN r
                                   ELSE outboxLock[e]]
    /\ UNCHANGED <<itemVars, authVars,
                   now, ctxDone, faults, bidVars, outbox, pubCount, busVars, consVars>>

\* Mutant: the message is published with an empty routing key.
EventMessageNoKey(e) ==
    [exchange |-> Exchange, routingKey |-> "", body |-> outbox[e].payload]

EventMessage(e) ==
    [exchange |-> Exchange, routingKey |-> outbox[e].eventType,
     body |-> outbox[e].payload]

\* Mutant: the publish call returns nil without sending anything.
PublishNothing(r) ==
    /\ relay[r].pc = "publish"
    /\ relay' = [relay EXCEPT ![r].pc = "mark"]
    /\ UNCHANGED <<now, faults, ctxDone, bidVars, outbox, outboxLock, pubCount,
                   busVars, consVars, itemVars, authVars>>

Publish(r) ==
    /\ relay[r].pc = "publish"
    /\ LET e == relay[r].batch[relay[r].idx]
       IN /\ busLog' = busLog \cup {EventMessage(e)}
          /\ pubCount' = [pubCount EXCEPT ![e] = @ + 1]
          /\ queue' = Routed(queue, EventMessage(e))
    /\ relay' = [relay EXCEPT ![r].pc = "mark"]
    /\ UNCHANGED <<itemVars, authVars,
                   now, ctxDone, faults, bidVars, outbox, outboxLock, queueBound, consVars>>

\* Mutant: a failed publish is skipped and what was marked is committed.
PublishFailCommits(r) ==
    /\ relay[r].pc = "publish"
    /\ faults < MaxFaults
    /\ faults' = faults + 1
    /\ outbox' = [e \in EventIds |->
                    IF \E m \in relay[r].marked : m.id = e
                    THEN [outbox[e] EXCEPT !.status = "published"]
                    ELSE outbox[e]]
    /\ relay' = [relay EXCEPT ![r] =
                   [IdleRelay EXCEPT !.ret = "PublishFailed"]]
    /\ outboxLock' = ReleaseOutboxLocks(r)
    /\ UNCHANGED <<itemVars, authVars,
                   now, ctxDone, bidVars, pubCount, busVars, consVars>>

PublishFail(r) ==
    /\ relay[r].pc = "publish"
    /\ faults < MaxFaults
    /\ faults' = faults + 1
    /\ RelayRollback(r, "PublishFailed")
    /\ UNCHANGED <<itemVars, authVars,
                   now, ctxDone, bidVars, outbox, pubCount, busVars, consVars>>

\* Mutant: the status update leaves processed_at NULL.
UpdateEventStatusNoStamp(r) ==
    /\ relay[r].pc = "mark"
    /\ LET e == relay[r].batch[relay[r].idx]
           last == relay[r].idx = Len(relay[r].batch)
       IN relay' = [relay EXCEPT
                      ![r].marked = @ \cup {[id |-> e, at |-> -1]},
                      ![r].pc = IF last THEN "commit" ELSE "publish",
                      ![r].idx = IF last THEN @ ELSE @ + 1]
    /\ UNCHANGED <<itemVars, authVars,
                   now, ctxDone, faults, bidVars, outbox, outboxLock, pubCount,
                   busVars, consVars>>

UpdateEventStatus(r) ==
    /\ relay[r].pc = "mark"
    /\ LET e == relay[r].batch[relay[r].idx]
           last == relay[r].idx = Len(relay[r].batch)
       IN relay' = [relay EXCEPT
                      ![r].marked = @ \cup {[id |-> e, at |-> now]},
                      ![r].pc = IF last THEN "commit" ELSE "publish",
                      ![r].idx = IF last THEN @ ELSE @ + 1]
    /\ UNCHANGED <<itemVars, authVars,
                   now, ctxDone, faults, bidVars, outbox, outboxLock, pubCount,
                   busVars, consVars>>

RelayErrorAt(pc) ==
    CASE pc = "idle" -> "BeginFailed"
      [] pc = "begun" -> "FetchFailed"
      [] pc = "mark" -> "MarkFailed"
      [] pc = "commit" -> "CommitFailed"

\* BeginTx, GetPendingEvents, UpdateEventStatus or Commit returns an error.
\* Mutant: a failed tick records status failed on the rows of its batch.
RelayStoreFailMarksFailed(r) ==
    /\ relay[r].pc \in {"idle", "begun", "mark", "commit"}
    /\ faults < MaxFaults
    /\ faults' = faults + 1
    /\ RelayRollback(r, RelayErrorAt(relay[r].pc))
    /\ outbox' = [e \in EventIds |->
                    IF e \in Range(relay[r].batch)
                    THEN [outbox[e] EXCEPT !.status = "failed"]
                    ELSE outbox[e]]
    /\ UNCHANGED <<itemVars, authVars,
                   now, ctxDone, bidVars, pubCount, busVars, consVars>>

RelayStoreFail(r) ==
    /\ relay[r].pc \in {"idle", "begun", "mark", "commit"}
    /\ faults < MaxFaults
    /\ faults' = faults + 1
    /\ RelayRollback(r, RelayErrorAt(relay[r].pc))
    /\ UNCHANGED <<itemVars, authVars,
                   now, ctxDone, bidVars, outbox, pubCount, busVars, consVars>>

RelayCommit(r) ==
    /\ relay[r].pc = "commit"
    /\ outbox' = [e \in EventIds |->
                    IF \E m \in relay[r].marked : m.id = e
                    THEN [outbox[e] EXCEPT
                            !.status = "published",
                            !.processedAt =
                                (CHOOSE m \in relay[r].marked : m.id = e).at]
                    ELSE outbox[e]]
    /\ relay' = [relay EXCEPT ![r] = [IdleRelay EXCEPT !.ret = "ok"]]
    /\ outboxLock' = ReleaseOutboxLocks(r)
    /\ UNCHANGED <<itemVars, authVars,
                   now, ctxDone, faults, bidVars, pubCount, busVars, consVars>>

\* The relay process is killed inside a tick and restarted: the store aborts
\* the open transaction and Run starts again with processBatch.
RelayCrash(r) ==
    /\ relay[r].pc \notin {"idle", "returned"}
    /\ faults < MaxFaults
    /\ faults' = faults + 1
    /\ RelayRollback(r, "Crashed")
    /\ UNCHANGED <<itemVars, authVars,
                   now, ctxDone, bidVars, outbox, pubCount, busVars, consVars>>

RelayProgress(r) ==
    \/ RelayBeginTx(r)
    \/ GetPendingEvents(r)
    \/ Publish(r)
    \/ UpdateEventStatus(r)
    \/ RelayCommit(r)

RelayFault(r) ==
    \/ PublishFail(r)
    \/ RelayStoreFail(r)
    \/ RelayCrash(r)

RelayStep(r) == RelayProgress(r) \/ RelayFault(r)

\* The shutdown signal: main cancels the context passed to Run.
Cancel(r) ==
    /\ r \notin ctxDone
    /\ relay[r].pc # "returned"
    /\ ctxDone' = ctxDone \cup {r}
    /\ UNCHANGED <<itemVars, authVars,
                   now, faults, bidVars, outbox, outboxLock, relay, pubCount,
                   busVars, consVars>>

\* Mutant: the loop waits for the ticker only and never sees ctx.Done().
RelayReturnMissed(r) ==
    /\ relay[r].pc = "idle"
    /\ r \in ctxDone
    /\ UNCHANGED vars

\* select takes <-ctx.Done(): Run returns nil.
RelayReturn(r) ==
    /\ relay[r].pc = "idle"
    /\ r \in ctxDone
    /\ relay' = [relay EXCEPT ![r].pc = "returned"]
    /\ UNCHANGED <<itemVars, authVars,
                   now, faults, ctxDone, bidVars, outbox, outboxLock,
                   pubCount, busVars, consVars>>

\* select takes <-ticker.C although the context is cancelled: BeginTx fails
\* on the cancelled context, the error is logged and the loop selects again.
CancelledTick(r) ==
    /\ relay[r].pc = "idle"
    /\ r \in ctxDone
    /\ relay' = [relay EXCEPT ![r] = [IdleRelay EXCEPT !.ret = "BeginFailed"]]
    /\ UNCHANGED <<itemVars, authVars,
                   now, faults, ctxDone, bidVars, outbox, outboxLock,
                   pubCount, busVars, consVars>>

\* A store or broker call of the running tick fails on the cancelled context:
\* processBatch returns the error and the deferred Rollback ends the
\* transaction.
RelayCtxAbort(r) ==
    /\ relay[r].pc \in {"begun", "publish", "mark", "commit"}
    /\ r \in ctxDone
    /\ RelayRollback(r, "Cancelled")
    /\ UNCHANGED <<itemVars, authVars,
                   now, faults, ctxDone, bidVars, outbox, pubCount, busVars,
                   consVars>>

\* ------------------------------------------------- BidConsumer (analytics)
IdleConsumer ==
    [pc |-> "off", msg |-> NoRow, txStats |-> NoStats, txMark |-> FALSE]

\* proto.Unmarshal and the mapping to the domain DTO: the bid id is the
\* event id.
BidPlacedEvent(body) ==
    [eventId |-> body.bidId, userId |-> body.userId,
     amount |-> body.amount, timestamp |-> body.timestamp]

\* Mutant: the conflict branch leaves total_bids_placed as it is.
UpsertKeepsCount(row, amount, lastBidAt) ==
    IF row = NoStats
    THEN [totalBids |-> 1, totalAmount |-> amount, lastBidAt |-> lastBidAt]
    ELSE [totalBids |-> row.totalBids,
          totalAmount |-> row.totalAmount + amount,
          lastBidAt |-> lastBidAt]

\* INSERT ... ON CONFLICT (user_id) DO UPDATE of IncrementUserStats.
Upsert(row, amount, lastBidAt) ==
    IF row = NoStats
    THEN [totalBids |-> 1, totalAmount |-> amount, lastBidAt |-> lastBidAt]
    ELSE [totalBids |-> row.totalBids + 1,
          totalAmount |-> row.totalAmount + amount,
          lastBidAt |-> lastBidAt]

ReleaseStatsLocks(w) == [u \in Users |-> statsLock[u] \ {w}]

\* A nacked (requeue = true) or unacked delivery goes back to the queue.
Requeue(q, body) == <<body>> \o q

\* Mutant: the failed delivery is nacked with requeue = false.
NackDrop(w) ==
    /\ cons' = [cons EXCEPT ![w] = [IdleConsumer EXCEPT !.pc = "wait"]]
    /\ statsLock' = ReleaseStatsLocks(w)
    /\ queue' = queue

\* The transaction of the delivery ends without commit and ProcessBidPlaced
\* returns an error: Nack(false, true).
NackRequeue(w) ==
    /\ cons' = [cons EXCEPT ![w] = [IdleConsumer EXCEPT !.pc = "wait"]]
    /\ statsLock' = ReleaseStatsLocks(w)
    /\ queue' = Requeue(queue, cons[w].msg)

\* Run: open the channel, declare exchange, queue and binding, Consume.
ConsumerStart(w) ==
    /\ cons[w].pc = "off"
    /\ queueBound' = TRUE
    /\ cons' = [cons EXCEPT ![w].pc = "wait"]
    /\ UNCHANGED <<itemVars, authVars,
                   now, faults, bidVars, outbox, relayVars, busLog, queue,
                   processed, stats, statsLock, recvCount>>

\* proto.Unmarshal(d.Body, &event) succeeds on every body that is a protobuf
\* encoding of BidPlaced (the zero-length body included) and fails on others.
Unmarshals(body) == "bidId" \in DOMAIN body

\* uuid.MustParse(event.BidId) and uuid.MustParse(event.UserId) return only
\* for strings that are UUIDs; on any other string they panic.
MustParseReturns(body) == body.bidId \in EventIds /\ body.userId \in Users

\* A delivery the consumer can map to a BidPlacedEvent.
Decodable(body) == Unmarshals(body) /\ MustParseReturns(body)

\* A body that is not a protobuf message at all.
GarbageBody == [raw |-> "garbage"]

\* The zero-length body: it unmarshals to a BidPlaced whose strings are empty
\* (0 stands for the bid_id that is not a UUID) and whose timestamp is nil.
EmptyBody ==
    [bidId |-> 0, itemId |-> "", userId |-> "", amount |-> 0, timestamp |-> 0]

PoisonBodies == {GarbageBody, EmptyBody}

\* A delivery arrives on msgs and ProcessBidPlaced begins its transaction.
Receive(w) ==
    /\ cons[w].pc = "wait"
    /\ queue # <<>>
    /\ Decodable(Head(queue))
    /\ recvCount[Head(queue).bidId] < MaxDeliveries
    /\ queue' = Tail(queue)
    /\ cons' = [cons EXCEPT ![w].pc = "check", ![w].msg = Head(queue)]
    /\ recvCount' = [recvCount EXCEPT ![Head(queue).bidId] = @ + 1]
    /\ UNCHANGED <<itemVars, authVars,
                   now, faults, bidVars, outbox, relayVars, busLog,
                   queueBound, processed, stats, statsLock>>

\* proto.Unmarshal fails: d.Nack(false, false) drops the delivery and the loop
\* continues with the next one.
UnmarshalFail(w) ==
    /\ cons[w].pc = "wait"
    /\ queue # <<>>
    /\ ~Unmarshals(Head(queue))
    /\ queue' = Tail(queue)
    /\ UNCHANGED <<itemVars, authVars,
                   now, faults, bidVars, outbox, relayVars, busLog,
                   queueBound, consVars>>

\* The body unmarshals but uuid.MustParse panics: nothing recovers, the process
\* dies with the delivery unacknowledged and the broker puts it back at the
\* head of the queue.
MustParsePanic(w) ==
    /\ cons[w].pc = "wait"
    /\ queue # <<>>
    /\ Unmarshals(Head(queue))
    /\ ~MustParseReturns(Head(queue))
    /\ cons' = [cons EXCEPT ![w] = IdleConsumer]
    /\ UNCHANGED <<itemVars, authVars,
                   now, faults, bidVars, outbox, relayVars, busVars,
                   processed, stats, statsLock, recvCount>>

\* Mutant: the deduplication gate reports every event as processed.
AlwaysProcessed(id) == TRUE

\* SELECT 1 FROM processed_events WHERE event_id = $1 (committed rows).
IsProcessed(id) == id \in processed

IsEventProcessed(w) ==
    /\ cons[w].pc = "check"
    /\ cons' = [cons EXCEPT ![w].pc =
                  IF IsProcessed(BidPlacedEvent(cons[w].msg).eventId)
                  THEN "ack" ELSE "upsert"]
    /\ UNCHANGED <<itemVars, authVars,
                   now, faults, bidVars, outbox, relayVars, busVars,
                   processed, stats, statsLock, recvCount>>

\* Mutant: the upsert runs on the pool, outside the transaction.
IncrementUserStatsOutsideTx(w) ==
    /\ cons[w].pc = "upsert"
    /\ LET ev == BidPlacedEvent(cons[w].msg)
       IN /\ statsLock[ev.userId] \ {w} = {}
          /\ stats' = [stats EXCEPT ![ev.userId] =
                         Upsert(stats[ev.userId], ev.amount, ev.timestamp)]
          /\ cons' = [cons EXCEPT ![w].pc = "mark",
                                  ![w].txStats = stats'[ev.userId]]
    /\ UNCHANGED <<itemVars, authVars,
                   now, faults, bidVars, outbox, relayVars, busVars,
                   processed, statsLock, recvCount>>

\* Mutant: the upsert takes no row lock on user_stats.
IncrementUserStatsNoLock(w) ==
    /\ cons[w].pc = "upsert"
    /\ LET ev == BidPlacedEvent(cons[w].msg)
       IN cons' = [cons EXCEPT
                     ![w].pc = "mark",
                     ![w].txStats = Upsert(stats[ev.userId], ev.amount,
                                           ev.timestamp)]
    /\ UNCHANGED <<itemVars, authVars, now, faults, bidVars, outbox, relayVars,
                   busVars, processed, stats, statsLock, recvCount>>

IncrementUserStats(w) ==
    /\ cons[w].pc = "upsert"
    /\ LET ev == BidPlacedEvent(cons[w].msg)
       IN /\ statsLock[ev.userId] \ {w} = {}
          /\ statsLock' = [statsLock EXCEPT ![ev.userId] = {w}]
          /\ cons' = [cons EXCEPT
                        ![w].pc = "mark",
                        ![w].txStats = Upsert(stats[ev.userId], ev.amount,
                                              ev.timestamp)]
    /\ UNCHANGED <<itemVars, authVars,
                   now, faults, bidVars, outbox, relayVars, busVars,
                   processed, stats, recvCount>>

\* lock_timeout fires while another transaction holds the user_stats row.
IncrementLockTimeout(w) ==
    /\ cons[w].pc = "upsert"
    /\ statsLock[BidPlacedEvent(cons[w].msg).userId] \ {w} # {}
    /\ NackRequeue(w)
    /\ UNCHANGED <<itemVars, authVars,
                   now, faults, bidVars, outbox, relayVars, busLog,
                   queueBound, processed, stats, recvCount>>

\* Mutant: the receipt is not written.
MarkEventProcessedSkipped(w) ==
    /\ cons[w].pc = "mark"
    /\ cons' = [cons EXCEPT ![w].pc = "commit"]
    /\ UNCHANGED <<itemVars, authVars,
                   now, faults, bidVars, outbox, relayVars, busVars,
                   processed, stats, statsLock, recvCount>>

\* INSERT INTO processed_events: a committed row with the same event_id is a
\* primary-key violation, the error path of ProcessBidPlaced.
MarkEventProcessed(w) ==
    /\ cons[w].pc = "mark"
    /\ IF BidPlacedEvent(cons[w].msg).eventId \in processed
       THEN NackRequeue(w)
       ELSE /\ cons' = [cons EXCEPT ![w].pc = "commit", ![w].txMark = TRUE]
            /\ UNCHANGED <<statsLock, queue>>
    /\ UNCHANGED <<itemVars, authVars,
                   now, faults, bidVars, outbox, relayVars, busLog,
                   queueBound, processed, stats, recvCount>>

ConsumerCommit(w) ==
    /\ cons[w].pc = "commit"
    /\ LET ev == BidPlacedEvent(cons[w].msg)
       IN /\ stats' = [stats EXCEPT ![ev.userId] = cons[w].txStats]
          /\ processed' = IF cons[w].txMark
                          THEN processed \cup {ev.eventId} ELSE processed
    /\ cons' = [cons EXCEPT ![w].pc = "ack", ![w].txStats = NoStats,
                            ![w].txMark = FALSE]
    /\ statsLock' = ReleaseStatsLocks(w)
    /\ UNCHANGED <<itemVars, authVars,
                   now, faults, bidVars, outbox, relayVars, busVars,
                   recvCount>>

\* ProcessBidPlaced returned nil: the deferred Rollback ends the transaction
\* of the already-processed path, and the delivery is acked.
Ack(w) ==
    /\ cons[w].pc = "ack"
    /\ cons' = [cons EXCEPT ![w] = [IdleConsumer EXCEPT !.pc = "wait"]]
    /\ statsLock' = ReleaseStatsLocks(w)
    /\ UNCHANGED <<itemVars, authVars,
                   now, faults, bidVars, outbox, relayVars, busVars,
                   processed, stats, recvCount>>

\* BeginTx, a store call or the commit of ProcessBidPlaced returns an error.
ConsumerStoreFail(w) ==
    /\ cons[w].pc \in {"check", "upsert", "mark", "commit"}
    /\ faults < MaxFaults
    /\ faults' = faults + 1
    /\ NackRequeue(w)
    /\ UNCHANGED <<itemVars, authVars,
                   now, bidVars, outbox, relayVars, busLog, queueBound,
                   processed, stats, recvCount>>

\* The consumer process dies while it holds a delivery and is restarted: the
\* store aborts its transaction and the broker requeues the unacked message.
ConsumerCrash(w) ==
    /\ cons[w].pc \in {"check", "upsert", "mark", "commit", "ack"}
    /\ faults < MaxFaults
    /\ faults' = faults + 1
    /\ cons' = [cons EXCEPT ![w] = IdleConsumer]
    /\ statsLock' = ReleaseStatsLocks(w)
    /\ queue' = Requeue(queue, cons[w].msg)
    /\ UNCHANGED <<itemVars, authVars,
                   now, bidVars, outbox, relayVars, busLog, queueBound,
                   processed, stats, recvCount>>

ConsumerProgress(w) ==
    \/ ConsumerStart(w)
    \/ Receive(w)
    \/ IsEventProcessed(w)
    \/ IncrementUserStats(w)
    \/ MarkEventProcessed(w)
    \/ ConsumerCommit(w)
    \/ Ack(w)

ConsumerStep(w) ==
    \/ ConsumerProgress(w)
    \/ IncrementLockTimeout(w)
    \/ ConsumerStoreFail(w)
    \/ ConsumerCrash(w)

\* The consumer integration test publishes bid.placed events straight to the
\* exchange: event e of the pool is a bid of amount e by user "u1"; an event
\* may be published more than once, MaxCalls + 1 messages in all.
TestEvent(e) ==
    [bidId |-> e, itemId |-> "i1", userId |-> "u1", amount |-> e,
     timestamp |-> MaxTime - e]

TestPublish(e) ==
    /\ pubCount[1] + pubCount[MaxCalls] <= MaxCalls
    /\ e \in {1, MaxCalls}
    /\ LET msg == [exchange |-> Exchange, routingKey |-> "bid.placed",
                   body |-> TestEvent(e)]
       IN /\ busLog' = busLog \cup {msg}
          /\ queue' = Routed(queue, msg)
    /\ pubCount' = [pubCount EXCEPT ![e] = @ + 1]
    /\ UNCHANGED <<itemVars, authVars,
                   now, ctxDone, faults, bidVars, outbox, outboxLock, relay,
                   queueBound, consVars>>

\* Some publisher sends an undecodable body with routing key bid.placed to the
\* exchange once the queue is bound; each such body is in the queue at most
\* once at a time.
PoisonPublish(body) ==
    /\ queueBound
    /\ body \in PoisonBodies
    /\ body \notin Range(queue)
    /\ LET msg == [exchange |-> Exchange, routingKey |-> "bid.placed",
                   body |-> body]
       IN /\ busLog' = busLog \cup {msg}
          /\ queue' = Routed(queue, msg)
    /\ UNCHANGED <<itemVars, authVars,
                   now, ctxDone, faults, bidVars, outbox, relayVars, queueBound,
                   consVars>>

\* ----------------------------------------------------------- auth service
RegCalls == 1 .. MaxRegs
RefreshCalls == 1 .. MaxRefresh

\* Token 0 is the refresh token a login issued; token f is the one Refresh
\* call f generates.
TokenIds == 0 .. MaxRefresh

IdleReg ==
    [pc |-> "idle", email |-> "none", txUser |-> FALSE, txEv |-> FALSE,
     result |-> "none"]

IdleRefresh ==
    [pc |-> "idle", token |-> 0, txRevoke |-> FALSE, txNew |-> FALSE,
     result |-> "none"]

Emails == {"a", "b"}

\* The variables no step of the auth service touches, fault budget aside.
nonAuthVars == <<itemVars, now, bidVars, outbox, relayVars, busVars, consVars>>

\* The outbox row Register call g builds: its own id, the id of the new user
\* in the payload, status Pending.
UserCreatedRow(g) ==
    [id |-> g, userId |-> g, eventType |-> "user.created",
     status |-> "pending"]

\* Register: the deferred tx.Rollback discards the buffered writes.
RegReturn(g, res) ==
    reg' = [reg EXCEPT ![g].pc = "done", ![g].txUser = FALSE,
                       ![g].txEv = FALSE, ![g].result = res]

\* Register calls are interchangeable: they start in the order of their ids.
RegBegin(g) ==
    /\ reg[g].pc = "idle"
    /\ \A j \in RegCalls : j < g => reg[j].pc # "idle"
    /\ \E m \in Emails :
          reg' = [reg EXCEPT ![g] = [IdleReg EXCEPT !.pc = "lookup",
                                                   !.email = m]]
    /\ UNCHANGED <<nonAuthVars, faults, users, userOutbox, tokens, tokenLock,
                   refresh>>

\* The pool read of the committed users, then BeginTx.
GetUserByEmail(g) ==
    /\ reg[g].pc = "lookup"
    /\ IF \E u \in users : u.email = reg[g].email
       THEN RegReturn(g, "UserAlreadyExists")
       ELSE reg' = [reg EXCEPT ![g].pc = "create"]
    /\ UNCHANGED <<nonAuthVars, faults, users, userOutbox, tokens, tokenLock,
                   refresh>>

CreateUser(g) ==
    /\ reg[g].pc = "create"
    /\ reg' = [reg EXCEPT ![g].pc = "event", ![g].txUser = TRUE]
    /\ UNCHANGED <<nonAuthVars, faults, users, userOutbox, tokens, tokenLock,
                   refresh>>

\* Mutant: the outbox row is written through the pool.
CreateEventOutsideTx(g) ==
    /\ reg[g].pc = "event"
    /\ reg' = [reg EXCEPT ![g].pc = "commit"]
    /\ userOutbox' = userOutbox \cup
                       {UserCreatedRow(g)}
    /\ UNCHANGED <<nonAuthVars, faults, users, tokens, tokenLock, refresh>>

CreateEvent(g) ==
    /\ reg[g].pc = "event"
    /\ reg' = [reg EXCEPT ![g].pc = "commit", ![g].txEv = TRUE]
    /\ UNCHANGED <<nonAuthVars, faults, users, userOutbox, tokens, tokenLock,
                   refresh>>

\* Commit applies the buffered user row and outbox row together.
RegCommit(g) ==
    /\ reg[g].pc = "commit"
    /\ users' = users \cup
                  (IF reg[g].txUser
                   THEN {[id |-> g, email |-> reg[g].email]} ELSE {})
    /\ userOutbox' = userOutbox \cup
                       (IF reg[g].txEv
                        THEN {UserCreatedRow(g)} ELSE {})
    /\ RegReturn(g, "ok")
    /\ UNCHANGED <<nonAuthVars, faults, tokens, tokenLock, refresh>>

\* A store call of Register (the lookup, an insert, the commit) returns an
\* error; a unique violation of the insert is one of them.
RegStoreFail(g) ==
    /\ reg[g].pc \in {"lookup", "create", "event", "commit"}
    /\ faults < MaxFaults
    /\ faults' = faults + 1
    /\ RegReturn(g, "StoreError")
    /\ UNCHANGED <<nonAuthVars, users, userOutbox, tokens, tokenLock, refresh>>

\* The process dies inside Register; the server aborts the transaction.
RegCrash(g) ==
    /\ reg[g].pc \in {"create", "event", "commit"}
    /\ faults < MaxFaults
    /\ faults' = faults + 1
    /\ reg' = [reg EXCEPT ![g].pc = "crashed", ![g].txUser = FALSE,
                          ![g].txEv = FALSE]
    /\ UNCHANGED <<nonAuthVars, users, userOutbox, tokens, tokenLock, refresh>>

\* Refresh: the deferred tx.Rollback discards the buffered writes and
\* releases the row lock.
RefreshReturn(f, res) ==
    /\ refresh' = [refresh EXCEPT ![f].pc = "done", ![f].txRevoke = FALSE,
                                  ![f].txNew = FALSE, ![f].result = res]
    /\ tokenLock' = [t \in TokenIds |-> tokenLock[t] \ {f}]

\* Refresh calls start in the order of their ids; the caller presents a
\* token that was issued before or one that never was.
RefreshBegin(f) ==
    /\ refresh[f].pc = "idle"
    /\ \A j \in RefreshCalls : j < f => refresh[j].pc # "idle"
    /\ \E t \in TokenIds :
          refresh' = [refresh EXCEPT ![f] = [IdleRefresh EXCEPT
                                               !.pc = "lookup", !.token = t]]
    /\ UNCHANGED <<nonAuthVars, faults, users, userOutbox, reg, tokens,
                   tokenLock>>

\* The pool read of the committed token row and the checks on it, then
\* GetUserByID and BeginTx.
GetRefreshToken(f) ==
    /\ refresh[f].pc = "lookup"
    /\ IF tokens[refresh[f].token] # "valid"
       THEN RefreshReturn(f, "InvalidToken")
       ELSE /\ refresh' = [refresh EXCEPT ![f].pc = "revoke"]
            /\ UNCHANGED tokenLock
    /\ UNCHANGED <<nonAuthVars, faults, users, userOutbox, reg, tokens>>

\* UPDATE refresh_tokens SET revoked = true WHERE token_hash = $1: waits for
\* the row lock, then updates the row whatever its revoked flag is.
RevokeRefreshToken(f) ==
    /\ refresh[f].pc = "revoke"
    /\ tokenLock[refresh[f].token] \subseteq {f}
    /\ tokenLock' = [tokenLock EXCEPT ![refresh[f].token] = {f}]
    /\ refresh' = [refresh EXCEPT ![f].pc = "create", ![f].txRevoke = TRUE]
    /\ UNCHANGED <<nonAuthVars, faults, users, userOutbox, reg, tokens>>

\* lock_timeout fires while the row is held by another transaction.
RevokeLockTimeout(f) ==
    /\ refresh[f].pc = "revoke"
    /\ ~(tokenLock[refresh[f].token] \subseteq {f})
    /\ RefreshReturn(f, "StoreError")
    /\ UNCHANGED <<nonAuthVars, faults, users, userOutbox, reg, tokens>>

\* GenerateTokens, then the insert of the new token row.
CreateRefreshToken(f) ==
    /\ refresh[f].pc = "create"
    /\ refresh' = [refresh EXCEPT ![f].pc = "commit", ![f].txNew = TRUE]
    /\ UNCHANGED <<nonAuthVars, faults, users, userOutbox, reg, tokens,
                   tokenLock>>

RefreshCommit(f) ==
    /\ refresh[f].pc = "commit"
    /\ tokens' = [t \in TokenIds |->
                    IF t = refresh[f].token /\ refresh[f].txRevoke
                    THEN "revoked"
                    ELSE IF t = f /\ refresh[f].txNew THEN "valid"
                    ELSE tokens[t]]
    /\ RefreshReturn(f, "ok")
    /\ UNCHANGED <<nonAuthVars, faults, users, userOutbox, reg>>

RefreshStoreFail(f) ==
    /\ refresh[f].pc \in {"lookup", "revoke", "create", "commit"}
    /\ faults < MaxFaults
    /\ faults' = faults + 1
    /\ RefreshReturn(f, "StoreError")
    /\ UNCHANGED <<nonAuthVars, users, userOutbox, reg, tokens>>

\* ------------------------------------------------------------- CancelItem
CancelCalls == 1 .. MaxCancels

IdleCancel ==
    [pc |-> "idle", item |-> "none", user |-> "none", seenStatus |-> "none",
     result |-> "none"]

\* Item.IsOwnedBy: the caller is the seller of the item.
IsOwnedBy(sellerId, userId) == sellerId = userId

\* Item.CanBeCancelled: only an active item with no bids.
CanBeCancelled(status, hasBids) == status = "active" /\ ~hasBids

\* Mutant: the count of bids is always zero.
CountBidsNone(i) == 0

\* SELECT COUNT(*) FROM bids WHERE item_id = $1, through the pool: the
\* committed bids of the item.
CountBidsByItemID(i) == Cardinality({b \in bids : b.item = i})

CancelReturn(k, res) ==
    cancel' = [cancel EXCEPT ![k].pc = "done", ![k].result = res]

\* Cancel calls are interchangeable: they start in the order of their ids.
CancelBegin(k, I, U) ==
    /\ cancel[k].pc = "idle"
    /\ \A j \in CancelCalls : j < k => cancel[j].pc # "idle"
    /\ \E i \in I, u \in U :
          cancel' = [cancel EXCEPT ![k] =
                       [IdleCancel EXCEPT !.pc = "get", !.item = i, !.user = u]]
    /\ UNCHANGED <<now, faults, bidVars, outbox, relayVars, busVars, consVars,
                   itemStatus, authVars>>

\* GetItemByID through the pool (no lock), then the ownership check.
CancelGetItem(k) ==
    /\ cancel[k].pc = "get"
    /\ LET i == cancel[k].item
       IN IF i \notin Items THEN CancelReturn(k, "ItemNotFound")
          ELSE IF ~IsOwnedBy(SellerOf(i), cancel[k].user)
          THEN CancelReturn(k, "Unauthorized")
          ELSE cancel' = [cancel EXCEPT ![k].pc = "count",
                                        ![k].seenStatus = itemStatus[i]]
    /\ UNCHANGED <<now, faults, bidVars, outbox, relayVars, busVars, consVars,
                   itemStatus, authVars>>

\* CountBidsByItemID through the pool, then CanBeCancelled on the item read
\* before.
CancelCountBids(k) ==
    /\ cancel[k].pc = "count"
    /\ IF CanBeCancelled(cancel[k].seenStatus,
                         CountBidsByItemID(cancel[k].item) > 0)
       THEN cancel' = [cancel EXCEPT ![k].pc = "update"]
       ELSE CancelReturn(k, "CannotCancel")
    /\ UNCHANGED <<now, faults, bidVars, outbox, relayVars, busVars, consVars,
                   itemStatus, authVars>>

\* UPDATE items SET status = 'cancelled' WHERE id = $2, autocommitted through
\* the pool: it waits while a transaction holds the row lock.
CancelUpdateStatus(k) ==
    /\ cancel[k].pc = "update"
    /\ itemLock[cancel[k].item] = {}
    /\ itemStatus' = [itemStatus EXCEPT ![cancel[k].item] = "cancelled"]
    /\ CancelReturn(k, "ok")
    /\ UNCHANGED <<now, faults, bidVars, outbox, relayVars, busVars, consVars,
                   authVars>>

CancelErrorAt(pc) ==
    CASE pc = "get" -> "ItemNotFound"
      [] pc = "count" -> "CountFailed"
      [] pc = "update" -> "UpdateStatusFailed"

\* A store call of CancelItem returns an error.
CancelStoreFail(k) ==
    /\ cancel[k].pc \in {"get", "count", "update"}
    /\ faults < MaxFaults
    /\ faults' = faults + 1
    /\ CancelReturn(k, CancelErrorAt(cancel[k].pc))
    /\ UNCHANGED <<now, bidVars, outbox, relayVars, busVars, consVars,
                   itemStatus, authVars>>

CancelStep(k, I, U) ==
    \/ CancelBegin(k, I, U)
    \/ CancelGetItem(k)
    \/ CancelCountBids(k)
    \/ CancelUpdateStatus(k)
    \/ CancelStoreFail(k)

\* ---------------------------------------------------------- specification
Init ==
    /\ now = 0
    /\ faults = 0
    /\ call = [c \in Calls |-> IdleCall]
    /\ chb = [i \in Items |-> 0]
    /\ itemLock = [i \in Items |-> {}]
    /\ bids = {}
    /\ outbox = [e \in Calls |-> NoRow]
    /\ outboxLock = [e \in Calls |-> NoRelay]
    /\ relay = [r \in Relays |-> IdleRelay]
    /\ pubCount = [e \in Calls |-> 0]
    /\ ctxDone = {}
    /\ busLog = {}
    /\ queueBound = FALSE
    /\ queue = <<>>
    /\ cons = [w \in Consumers |-> IdleConsumer]
    /\ processed = {}
    /\ stats = [u \in Users |-> NoStats]
    /\ statsLock = [u \in Users |-> {}]
    /\ recvCount = [e \in Calls |-> 0]
    /\ itemStatus = [i \in Items |-> "active"]
    /\ cancel = [k \in CancelCalls |-> IdleCancel]
    /\ users = {}
    /\ userOutbox = {}
    /\ reg = [g \in RegCalls |-> IdleReg]
    /\ tokens = [t \in TokenIds |-> IF t = 0 THEN "valid" ELSE "none"]
    /\ tokenLock = [t \in TokenIds |-> {}]
    /\ refresh = [f \in RefreshCalls |-> IdleRefresh]

\* The bidding engine alone.
NextBid ==
    \/ Tick
    \/ \E c \in Calls : PlaceBidStep(c, ItemIds, Users, Amounts)

SpecBid == Init /\ [][NextBid]_vars

\* The bid service with its two operations on items: PlaceBid by a bidder and
\* CancelItem by the seller or by another user.
NextItems ==
    \/ \E c \in Calls : PlaceBidStep(c, ItemIds, {"u1"}, {c})
    \/ \E k \in CancelCalls : CancelStep(k, ItemIds, {"s", "u1"})

SpecItems == Init /\ [][NextItems]_vars

\* Register and Refresh calls of the auth service.
NextAuth ==
    \/ \E g \in RegCalls :
          \/ RegBegin(g) \/ GetUserByEmail(g) \/ CreateUser(g)
          \/ CreateEvent(g) \/ RegCommit(g) \/ RegStoreFail(g) \/ RegCrash(g)
    \/ \E f \in RefreshCalls :
          \/ RefreshBegin(f) \/ GetRefreshToken(f) \/ RevokeRefreshToken(f)
          \/ RevokeLockTimeout(f) \/ CreateRefreshToken(f)
          \/ RefreshCommit(f) \/ RefreshStoreFail(f)

SpecAuth == Init /\ [][NextAuth]_vars

\* The bidding engine with callers that may hang inside their transaction.
\* Every call that is not hung keeps running; the store waits at most
\* lock_timeout for a row lock.
NextHang ==
    \/ Tick
    \/ \E c \in Calls : PlaceBidStep(c, ItemIds, {"u1", "u2"}, Amounts)
    \/ \E c \in Calls : Hang(c)

SpecHang ==
    Init /\ [][NextHang]_vars /\ \A c \in Calls : WF_vars(PlaceBidProgress(c))

\* The producer service: PlaceBid calls of one bidder on the seeded item
\* (the c-th call bids the amount c, so a call is outbid when a later one
\* commits first) and the outbox relays.
NextProducer ==
    \/ Tick
    \/ \E c \in Calls : PlaceBidStep(c, ItemIds, {"u1"}, {c})
    \/ \E r \in Relays : RelayStep(r)

SpecProducer == Init /\ [][NextProducer]_vars

\* Two auctions served by one bid-service instance with a single relay.
NextAuctions ==
    \/ Tick
    \/ \E c \in Calls : PlaceBidStep(c, AllItemIds, {"u1"}, {c})
    \/ RelayStep("r1")

SpecAuctions == Init /\ [][NextAuctions]_vars

\* The analytics consumer fed by the test publisher.
NextConsumer ==
    \/ \E e \in EventIds : TestPublish(e)
    \/ \E w \in Consumers : ConsumerStep(w)

SpecConsumer == Init /\ [][NextConsumer]_vars

\* One consumer fed by the test publisher and by a publisher of undecodable
\* bodies.
NextPoison ==
    \/ \E e \in EventIds : TestPublish(e)
    \/ \E b \in PoisonBodies : PoisonPublish(b)
    \/ ConsumerProgress("w1")
    \/ ConsumerStoreFail("w1")
    \/ ConsumerCrash("w1")
    \/ UnmarshalFail("w1")
    \/ MustParsePanic("w1")

SpecPoison == Init /\ [][NextPoison]_vars

\* The whole pipeline: PlaceBid, one relay, the broker and one consumer (a
\* lone consumer never meets a locked user_stats row).
Next ==
    \/ Tick
    \/ \E c \in Calls : PlaceBidStep(c, ItemIds, {"u1"}, {c})
    \/ RelayStep("r1")
    \/ ConsumerProgress("w1")
    \/ ConsumerStoreFail("w1")
    \/ ConsumerCrash("w1")

Spec == Init /\ [][Next]_vars

\* Every relay keeps running (Run's ticker fires again and again), and the
\* store and the broker fail only finitely often (MaxFaults).
\* One relay with its shutdown signal. Every store and broker call of a tick
\* returns, and the select of Run, offered ctx.Done() for ever, takes it.
NextShutdown ==
    \/ Tick
    \/ \E c \in Calls : PlaceBidStep(c, ItemIds, {"u1"}, {c})
    \/ RelayStep("r1")
    \/ Cancel("r1")
    \/ CancelledTick("r1")
    \/ RelayCtxAbort("r1")
    \/ RelayReturn("r1")

SpecShutdown ==
    /\ Init /\ [][NextShutdown]_vars
    /\ WF_vars(RelayProgress("r1") \/ RelayCtxAbort("r1"))
    /\ WF_vars(RelayReturn("r1"))

SpecProducerFair ==
    SpecProducer /\ \A r \in Relays : WF_vars(RelayProgress(r))

\* ------------------------------------------------------------------ claims
Succeeded(c) == call[c].pc = "done" /\ call[c].result = "ok"
BidRowsOf(c) == {b \in bids : b.id = c}

\* What is committed for each call is all of PlaceBid's writes or none.
AllOrNothing ==
    \A c \in Calls :
        /\ Succeeded(c) =>
              /\ Cardinality(BidRowsOf(c)) = 1
              /\ \A b \in BidRowsOf(c) :
                    b.item = call[c].item /\ b.amount = call[c].amount
              /\ outbox[c] # NoRow
              /\ outbox[c].eventType = "bid.placed"
              /\ outbox[c].payload.bidId = c
        /\ ~Succeeded(c) => BidRowsOf(c) = {} /\ outbox[c] = NoRow

\* The three writes become visible in one step, the commit of one call.
CommittedTogether ==
    /\ \A c \in Calls :
          (BidRowsOf(c)' # BidRowsOf(c) \/ (outbox[c] = NoRow /\ outbox'[c] # NoRow))
              => /\ BidRowsOf(c) = {} /\ Cardinality(BidRowsOf(c)') = 1
                 /\ outbox[c] = NoRow /\ outbox'[c].status = "pending"
                 /\ chb'[call[c].item] = call[c].amount
                 /\ Succeeded(c)'
    /\ \A i \in Items :
          chb'[i] # chb[i] =>
              \E b \in bids' \ bids : b.item = i /\ b.amount = chb'[i]

\* C1: after any PlaceBid call, in every committed state, either the call
\* succeeded and exactly one bid row, the highest-bid update to the bid
\* amount and exactly one Pending bid.placed outbox row were committed by
\* the same transaction, or none of the three changes appears.
C1_PlaceBidAllOrNothing == []AllOrNothing /\ [][CommittedTogether]_vars

C1_Witness ==
    \E c, d \in Calls :
        /\ Succeeded(c) /\ chb[call[c].item] = call[c].amount
        /\ call[d].pc = "done" /\ call[d].result = "CommitFailed"

\* C2: for every item the committed current_highest_bid only grows, and each
\* committed bid's amount is strictly greater than the value it replaces.
C2_StrictlyIncreasing ==
    [][ /\ \A i \in Items : chb'[i] # chb[i] => chb'[i] > chb[i]
        /\ \A b \in bids' \ bids :
              b.amount > chb[b.item] /\ chb'[b.item] = b.amount ]_vars

C2_Witness ==
    \E b1, b2 \in bids :
        b1.item = b2.item /\ b1.amount < b2.amount /\ chb[b2.item] = b2.amount

SameBidPair(c, d) ==
    /\ c # d
    /\ call[c].pc = "done" /\ call[d].pc = "done"
    /\ call[c].item \in Items /\ call[d].item = call[c].item
    /\ call[c].amount > 0 /\ call[d].amount = call[c].amount
    /\ call[c].user # SellerOf(call[c].item)
    /\ call[d].user # SellerOf(call[c].item)

DomainResults ==
    {"SellerCannotBid", "InvalidBidAmount", "BidTooLow", "AuctionEnded"}

C5_PendingEventuallyPublished ==
    \A e \in EventIds :
        (outbox[e].status = "pending") ~> (outbox[e].status = "published")

C5_Witness ==
    \E e \in EventIds, r \in Relays :
        /\ relay[r].ret = "Crashed" /\ e \in relay[r].lost
        /\ outbox[e].status = "published" /\ pubCount[e] >= 2

BatchRows(r) == Range(relay[r].batch)

\* C6: when a publish of a batch fails, processBatch returns the error and
\* every row the tick had claimed, also those it had already published and
\* marked, is committed Pending and unlocked, hence claimable again; the
\* relay is back at its ticker; and each such row is claimed again later.
C6_PublishFailureRollsBack ==
    /\ [][ \A r \in Relays :
             (relay[r].pc = "publish" /\ relay'[r].ret = "PublishFailed")
             => /\ relay'[r].pc = "idle"
                /\ relay'[r].lost = BatchRows(r)
                /\ \A e \in BatchRows(r) :
                      /\ outbox'[e].status = "pending"
                      /\ outboxLock'[e] = NoRelay ]_vars
    /\ \A r \in Relays, e \in EventIds :
          ( /\ relay[r].ret = "PublishFailed" /\ e \in relay[r].lost
            /\ outbox[e].status = "pending" )
              ~> (outboxLock[e] # NoRelay)

C6_Witness ==
    \E r \in Relays, e \in EventIds :
        /\ relay[r].ret = "PublishFailed" /\ Cardinality(relay[r].lost) = 2
        /\ e \in relay[r].lost /\ pubCount[e] = 1
        /\ outbox[e].status = "pending"

\* C7: a row whose Published status is committed stays Published, and no
\* relay publishes its event again.
C7_PublishedIsFinal ==
    [][ \A e \in EventIds :
          outbox[e].status = "published"
          => /\ outbox'[e].status = "published"
             /\ pubCount'[e] = pubCount[e] ]_vars

C7_Witness ==
    \E e \in EventIds, r \in Relays :
        /\ outbox[e].status = "published"
        /\ relay[r].pc = "commit" /\ e \notin BatchRows(r)

\* C8: the row sets held by relay transactions that are open at the same time
\* are pairwise disjoint, and while no failure or crash has happened every
\* event is published at most once, exactly once when its row is Published.
C8_DisjointClaims ==
    /\ \A r1, r2 \in Relays :
          r1 # r2 => BatchRows(r1) \cap BatchRows(r2) = {}
    /\ \A r \in Relays : \A e \in BatchRows(r) : outboxLock[e] = r
    /\ faults = 0 =>
          \A e \in EventIds :
              /\ pubCount[e] <= 1
              /\ outbox[e].status = "published" => pubCount[e] = 1

C8_Witness ==
    \E r1, r2 \in Relays :
        /\ r1 # r2 /\ faults = 0
        /\ relay[r1].pc = "mark" /\ relay[r2].pc = "mark"

\* C9: every bid.placed message on the bus belongs to a committed bid, and a
\* PlaceBid that failed (validation, store write, commit, crash) has no bid
\* row, no outbox row and no published message.
C9_NoInventedEvents ==
    /\ \A m \in busLog :
          \E b \in bids :
              /\ Succeeded(b.id)
              /\ m.routingKey = "bid.placed"
              /\ m.body = [bidId |-> b.id, itemId |-> b.item,
                           userId |-> b.user, amount |-> b.amount,
                           timestamp |-> b.createdAt]
    /\ \A c \in Calls :
          (call[c].pc = "done" /\ call[c].result # "ok")
          => /\ BidRowsOf(c) = {}
             /\ outbox[c] = NoRow
             /\ pubCount[c] = 0
             /\ \A m \in busLog : m.body.bidId # c

C9_Witness ==
    \E c, d \in Calls :
        /\ call[d].pc = "done" /\ call[d].result = "CommitFailed"
        /\ pubCount[c] = 1 /\ outbox[c].status = "published"

\* ------------------------------------------------------------------- C4
RECURSIVE SumAmounts(_)
SumAmounts(S) ==
    IF S = {} THEN 0
    ELSE LET b == CHOOSE x \in S : TRUE
         IN b.amount + SumAmounts(S \ {b})

\* The bid.placed events of user u whose receipt is committed.
ProcessedEventsOf(u) ==
    {b \in {m.body : m \in busLog} : b.userId = u /\ b.bidId \in processed}

\* No delivery of event e is in the queue or in a consumer's hands.
Settled(e) ==
    /\ \A k \in 1 .. Len(queue) : queue[k].bidId # e
    /\ \A w \in Consumers : cons[w].msg = NoRow \/ cons[w].msg.bidId # e

\* C4: however often an event is delivered, and whatever other deliveries are
\* interleaved, the committed UserStats of a user count each of the user's
\* processed events exactly once (bids and amounts), and an event that was
\* delivered at least once and has no delivery left has its single receipt.
C4_DeliveriesCountOnce ==
    /\ \A u \in Users :
         /\ stats[u].totalBids = Cardinality(ProcessedEventsOf(u))
         /\ stats[u].totalAmount = SumAmounts(ProcessedEventsOf(u))
    /\ \A e \in EventIds :
         (recvCount[e] >= 1 /\ Settled(e)) => e \in processed

\* Event 1 was delivered twice around event MaxCalls and counts once.
C4_Witness ==
    /\ recvCount[1] >= 2
    /\ recvCount[MaxCalls] >= 1
    /\ processed = {1, MaxCalls}
    /\ Settled(1) /\ Settled(MaxCalls)
    /\ stats["u1"].totalBids = 2
    /\ stats["u1"].totalAmount = 1 + MaxCalls

\* ------------------------------------------------------------------ C10
\* Relay, broker and consumer are at rest: nothing queued, nothing in hand,
\* a consumer is running.
PipelineIdle ==
    /\ queue = <<>>
    /\ \A r \in Relays : relay[r].pc = "idle"
    /\ \A w \in Consumers : cons[w].pc \in {"off", "wait"}
    /\ \E w \in Consumers : cons[w].pc = "wait"

\* C10: every committed bid.placed event reaches the consumer at least once:
\* once its outbox row is committed Published and the pipeline is at rest
\* with the consumer running, the event is among the processed events and in
\* the bidder's UserStats.
C10_CommittedEventReachesConsumer ==
    \A c \in Calls :
        (outbox[c].status = "published" /\ PipelineIdle) =>
            (c \in processed /\ stats[call[c].user].totalBids >= 1)

\* A committed bid travelled through relay, broker and consumer.
C10_Witness ==
    \E c \in Calls :
        /\ outbox[c].status = "published"
        /\ PipelineIdle
        /\ c \in processed
        /\ stats[call[c].user].totalAmount = call[c].amount

\* ------------------------------------------------------------------ C11
\* The committed contribution of a delivery: the upsert of its amount.
Contribution(body, row) == Upsert(row, body.amount, body.timestamp)

\* C11: the receipt of an event and its aggregate update become visible in
\* one step, the commit of one delivery's transaction: whenever processed_events
\* gains an id, user_stats gains exactly that event's upsert, and user_stats
\* never changes without the receipt of the event being added.
C11_ReceiptAndUpdateTogether ==
    [][ /\ processed' # processed =>
             \E w \in Consumers :
                /\ cons[w].msg # NoRow
                /\ processed' = processed \cup {cons[w].msg.bidId}
                /\ cons[w].msg.bidId \notin processed
                /\ stats' = [stats EXCEPT ![cons[w].msg.userId] =
                               Contribution(cons[w].msg, @)]
        /\ stats' # stats => processed' # processed
        /\ processed \subseteq processed' ]_vars

\* One receipt is committed while another delivery's upsert is still
\* uncommitted in its transaction.
C11_Witness ==
    \E w \in Consumers :
        /\ cons[w].pc = "mark"
        /\ cons[w].txStats.totalBids = 2
        /\ Cardinality(processed) = 1
        /\ stats["u1"].totalBids = 1

\* ------------------------------------------------------------------ C12
\* C12: in every committed state, for every user, total_bids_placed equals
\* the number of distinct event ids in processed_events that belong to events
\* of that user.
C12_TotalBidsEqualsReceipts ==
    \A u \in Users :
        stats[u].totalBids =
            Cardinality({b.bidId : b \in ProcessedEventsOf(u)})

C12_Witness ==
    /\ stats["u1"].totalBids = 2
    /\ Cardinality(processed) = 2
    /\ stats["u2"] = NoStats

\* ------------------------------------------------------------------ C13
\* C13: a delivery leaves the consumer without going back to the queue (it
\* is acked) only when its event's receipt is committed, and with the receipt
\* the event's contribution to the user's committed totals.
C13_AckOnlyAfterCommit ==
    /\ [][ \A w \in Consumers :
             ( /\ cons[w].msg # NoRow
               /\ cons'[w].msg = NoRow
               /\ queue' = queue )
             => /\ cons[w].msg.bidId \in processed
                /\ stats[cons[w].msg.userId].totalBids >= 1 ]_vars
    /\ [](\A w \in Consumers :
             cons[w].pc = "ack" => cons[w].msg.bidId \in processed)

\* A duplicate found already processed is about to be acked.
C13_Witness ==
    \E w \in Consumers :
        /\ cons[w].pc = "ack"
        /\ recvCount[cons[w].msg.bidId] >= 2
        /\ cons[w].msg.bidId \in processed

\* ------------------------------------------------------------------ C14
\* C14: when a step of ProcessBidPlaced fails (BeginTx, the dedup check, the
\* upsert, the receipt insert or the commit), the committed user_stats and
\* processed_events are unchanged, the transaction's row locks are released,
\* and the delivery is back in the queue for redelivery.
C14_FailureRollsBackAndRequeues ==
    [][ \A w \in Consumers :
          ( /\ cons[w].pc \in {"check", "upsert", "mark", "commit"}
            /\ cons'[w].pc \in {"wait", "off"} )
          => /\ stats' = stats
             /\ processed' = processed
             /\ \A u \in Users : w \notin statsLock'[u]
             /\ queue' = <<cons[w].msg>> \o queue
             /\ cons'[w].msg = NoRow ]_vars

\* With no injected fault, an event published once was delivered and is back
\* in the queue: its upsert failed on the row lock held by another delivery.
C14_Witness ==
    /\ faults = 0
    /\ pubCount[1] = 1
    /\ recvCount[1] >= 1
    /\ 1 \notin processed
    /\ \E k \in 1 .. Len(queue) : queue[k].bidId = 1
    /\ \A w \in Consumers : cons[w].msg = NoRow \/ cons[w].msg.bidId # 1

\* ------------------------------------------------------------------ C15
\* No relay transaction that holds the row of event e is open.
TickEnded(e) == \A r \in Relays : e \notin BatchRows(r)

Stamped(e) == outbox[e].status = "published" /\ outbox[e].processedAt >= 0

\* C15 as stated: for every event the relay has published, once the tick
\* that published it has ended, its outbox row is Published with processed_at
\* set.
C15_Original ==
    \A e \in EventIds : (pubCount[e] >= 1 /\ TickEnded(e)) => Stamped(e)

\* C15 (amended): a tick that commits leaves every row of its batch Published
\* with processed_at set, a Published row always has processed_at set and was
\* published; an event published by a tick that ended without commit (a later
\* publish, a status update or the commit failed, or the relay died) has its
\* row Pending with no processed_at, and that happens only after a failure.
C15_PublishedRowStamped ==
    /\ [](\A e \in EventIds :
            /\ outbox[e].status = "published" =>
                  outbox[e].processedAt >= 0 /\ pubCount[e] >= 1
            /\ (pubCount[e] >= 1 /\ TickEnded(e)) =>
                  \/ Stamped(e)
                  \/ /\ outbox[e].status = "pending"
                     /\ outbox[e].processedAt = -1
                     /\ faults > 0)
    /\ [][ \A r \in Relays :
             (relay[r].pc = "commit" /\ relay'[r].ret = "ok"
                 /\ relay'[r].pc = "idle")
             => \A e \in BatchRows(r) :
                   /\ outbox'[e].status = "published"
                   /\ outbox'[e].processedAt >= 0 ]_vars

\* A committed tick published the event once and stamped its row.
C15_Witness ==
    \E r \in Relays, e \in EventIds :
        /\ relay[r].ret = "ok"
        /\ pubCount[e] = 1
        /\ Stamped(e)
        /\ outbox[e].processedAt > outbox[e].createdAt

\* ------------------------------------------------------------------ C16
SetMax(S) == CHOOSE m \in S : \A x \in S : x <= m

SucceededOn(i) == {c \in Calls : Succeeded(c) /\ call[c].item = i}
BidsOn(i) == {b \in bids : b.item = i}
PendingBidPlacedOn(i) ==
    {e \in EventIds : /\ outbox[e].status = "pending"
                      /\ outbox[e].eventType = "bid.placed"
                      /\ outbox[e].payload.itemId = i}
AllFinished == \A c \in Calls : call[c].pc = "done"

\* C16: for every item (no relay running), the rows of bids, the calls that
\* returned success and the Pending bid.placed outbox rows are equally many,
\* each successful amount is in exactly one bid row, and current_highest_bid
\* is the largest successful amount (the seeded value if none succeeded); in
\* particular once all calls have finished.
C16_CountsAgree ==
    \A i \in Items :
        /\ Cardinality(BidsOn(i)) = Cardinality(SucceededOn(i))
        /\ Cardinality(PendingBidPlacedOn(i)) = Cardinality(SucceededOn(i))
        /\ \A c \in SucceededOn(i) :
              Cardinality({b \in BidsOn(i) : b.amount = call[c].amount}) = 1
        /\ chb[i] = SetMax({0} \cup {call[c].amount : c \in SucceededOn(i)})

\* All calls finished: one won, one gave up waiting for the row lock.
C16_Witness ==
    /\ AllFinished
    /\ \E c, d \in Calls :
          /\ Succeeded(c) /\ call[d].result = "LockTimeout"
          /\ call[d].item = call[c].item
          /\ chb[call[c].item] = call[c].amount
          /\ Cardinality(bids) = 1

\* ------------------------------------------------------------------ C17
\* All calls bid distinct amounts above the seeded highest bid on one item,
\* as non-sellers, before end_at, with no infrastructure failure, and every
\* call was answered by the service's validation.
DistinctAmountRun(i) ==
    /\ AllFinished
    /\ faults = 0
    /\ now <= EndAtOf(i)
    /\ \A c \in Calls :
          /\ call[c].item = i
          /\ call[c].user # SellerOf(i)
          /\ call[c].amount > 0
          /\ call[c].result \in {"ok"} \cup DomainResults
    /\ \A c, d \in Calls : c # d => call[c].amount # call[d].amount

\* C17 as stated (scaled to MaxCalls calls with amounts 1 .. MaxCalls on a
\* highest bid of 0): all calls succeed.
C17_Original ==
    \A i \in Items :
        DistinctAmountRun(i) => \A c \in Calls : Succeeded(c)

\* C17 (amended): of concurrent calls with distinct amounts above the current
\* highest bid, the call with the largest amount succeeds and
\* current_highest_bid ends as that amount; a call is rejected, with
\* BidTooLow, exactly when a call with a larger amount committed before it
\* read the item; bids and Pending events are as many as the successes and
\* every successful amount appears once.
C17_DistinctAmounts ==
    \A i \in Items :
        DistinctAmountRun(i) =>
            /\ \A c \in Calls :
                  \/ Succeeded(c)
                  \/ /\ call[c].result = "BidTooLow"
                     /\ \E d \in SucceededOn(i) :
                           call[d].amount > call[c].amount
            /\ \A c \in Calls :
                  call[c].amount = SetMax({call[d].amount : d \in Calls})
                      => Succeeded(c)
            /\ chb[i] = SetMax({call[d].amount : d \in Calls})
            /\ Cardinality(BidsOn(i)) = Cardinality(SucceededOn(i))
            /\ Cardinality(PendingBidPlacedOn(i)) = Cardinality(SucceededOn(i))
            /\ \A c \in SucceededOn(i) :
                  Cardinality({b \in BidsOn(i) : b.amount = call[c].amount}) = 1

\* The calls happened to commit in ascending order of amount: all succeeded.
C17_Witness ==
    \E i \in Items :
        /\ DistinctAmountRun(i)
        /\ \A c \in Calls : Succeeded(c)
        /\ Cardinality(BidsOn(i)) = MaxCalls
        /\ chb[i] = MaxCalls

\* ------------------------------------------------------------------ C18
Rejections == DomainResults \cup {"ItemNotFound"}

\* C18: the step in which PlaceBid returns a rejection (BidTooLow,
\* SellerCannotBid, InvalidBidAmount, AuctionEnded, ItemNotFound) leaves
\* bids, current_highest_bid and outbox_events as they are; the call had
\* written nothing before its checks, and a rejected call has no bid row and
\* no outbox row.
C18_RejectionChangesNothing ==
    /\ [][ \A c \in Calls :
             ( /\ call[c].pc # "done"
               /\ call'[c].pc = "done"
               /\ call'[c].result \in Rejections )
             => bids' = bids /\ chb' = chb /\ outbox' = outbox ]_vars
    /\ [](\A c \in Calls :
            /\ call[c].pc \in {"begun", "validate"} =>
                  ~call[c].txBid /\ ~call[c].txChb /\ ~call[c].txEv
            /\ (call[c].pc = "done" /\ call[c].result \in Rejections) =>
                  BidRowsOf(c) = {} /\ outbox[c] = NoRow)

\* After a committed bid the seller's higher bid was rejected and nothing
\* was added.
C18_Witness ==
    \E c, d \in Calls :
        /\ Succeeded(c)
        /\ call[d].pc = "done" /\ call[d].result = "SellerCannotBid"
        /\ call[d].item = call[c].item
        /\ call[d].amount > call[c].amount
        /\ chb[call[c].item] = call[c].amount
        /\ Cardinality(bids) = 1

\* ------------------------------------------------------------------ C19
\* What the validation step of call c answered in this step.
Answer(c) == IF call'[c].pc = "savebid" THEN "ok" ELSE call'[c].result

C20_BidsBeforeEndAt ==
    [][ /\ \A c \in Calls :
             ( /\ call[c].pc = "validate"
               /\ call'[c].pc # "validate"
               /\ faults' = faults
               /\ now >= EndAtOf(call[c].item) )
             => Answer(c) # "ok"
        /\ \A b \in bids' \ bids : b.createdAt < EndAtOf(b.item) ]_vars

\* After end_at the check does reject.
C20_Witness ==
    \E c \in Calls :
        /\ call[c].pc = "done" /\ call[c].result = "AuctionEnded"
        /\ now > EndAtOf(call[c].item)

\* ------------------------------------------------------------------ C21
\* C21: a PlaceBid whose amount equals the current_highest_bid it reads is
\* rejected, with BidTooLow when the bidder is not the seller and the amount
\* is positive (the earlier checks pass), and the step leaves
\* current_highest_bid unchanged.
C21_EqualAmountRejected ==
    [][ \A c \in Calls :
          ( /\ call[c].pc = "validate"
            /\ call'[c].pc # "validate"
            /\ faults' = faults
            /\ call[c].amount = call[c].seenChb )
          => /\ Answer(c) # "ok"
             /\ call'[c].pc = "done"
             /\ (call[c].user # SellerOf(call[c].item) /\ call[c].amount > 0)
                   => Answer(c) = "BidTooLow"
             /\ chb' = chb ]_vars

\* A bid equal to the committed highest bid was rejected with BidTooLow.
C21_Witness ==
    \E c, d \in Calls :
        /\ c # d
        /\ Succeeded(c)
        /\ call[d].pc = "done" /\ call[d].result = "BidTooLow"
        /\ call[d].item = call[c].item
        /\ call[d].amount = call[c].amount
        /\ chb[call[c].item] = call[d].amount
        /\ BidsOn(call[c].item) = BidRowsOf(c)

\* ------------------------------------------------------------------ C22
\* C22: once events of user u are processed, last_bid_at of u is the
\* maximum timestamp among the processed events of u, whatever the order of
\* the deliveries.
C22_LastBidAtIsMax ==
    \A u \in Users :
        ProcessedEventsOf(u) # {} =>
            stats[u].lastBidAt =
                SetMax({b.timestamp : b \in ProcessedEventsOf(u)})

\* Processed in timestamp order, the last timestamp is the maximum.
C22_Witness ==
    /\ processed = {1, MaxCalls}
    /\ stats["u1"].totalBids = 2
    /\ stats["u1"].lastBidAt = TestEvent(1).timestamp
    /\ TestEvent(1).timestamp > TestEvent(MaxCalls).timestamp

\* C23: a delivery whose body cannot be decoded into a bid-placed event is
\* negatively acknowledged without requeue: the step that takes it off the
\* channel removes it from the queue, changes no statistics and no receipt,
\* and leaves the consumer waiting for the deliveries that follow.
C23_UndecodableDropped ==
    [][ \A w \in Consumers :
          (/\ cons[w].pc = "wait"
           /\ queue # <<>>
           /\ ~Decodable(Head(queue))
           /\ (cons'[w] # cons[w] \/ queue' = Tail(queue)))
          => (/\ queue' = Tail(queue)
              /\ cons'[w].pc = "wait"
              /\ processed' = processed
              /\ stats' = stats) ]_vars

\* A garbage body was delivered and dropped, and an event published to the
\* same queue has been counted.
C23_Witness ==
    /\ [exchange |-> Exchange, routingKey |-> "bid.placed",
        body |-> GarbageBody] \in busLog
    /\ queue = <<>>
    /\ cons["w1"].pc = "wait"
    /\ processed = {1}
    /\ stats["u1"].totalBids = 1

\* C24: within a single relay the events of one type leave in ascending
\* created_at order: an event is never published for the first time after an
\* event with a later created_at has been published.
C24_PublishedInCreatedOrder ==
    [][ \A e \in EventIds :
          (pubCount[e] = 0 /\ pubCount'[e] = 1)
          => \A e2 \in EventIds :
                (pubCount[e2] >= 1 /\ outbox[e2].eventType = outbox[e].eventType)
                => outbox[e2].createdAt <= outbox[e].createdAt ]_vars

\* Two events with different created_at were both published by the relay, the
\* earlier one in a tick of its own before the later one.
C24_Witness ==
    /\ \A e \in EventIds : outbox[e].status = "published"
    /\ outbox[1].createdAt < outbox[MaxCalls].createdAt
    /\ outbox[1].processedAt < outbox[MaxCalls].processedAt

\* Pending rows held by a transaction other than relay r.
HeldByOthers(r) ==
    {e \in EventIds : /\ outbox[e].status = "pending"
                      /\ outboxLock[e] \notin {NoRelay, r}}

\* C25: claim_pending never waits for a row locked by another transaction: a
\* relay that has begun its tick can always run the claim, and the claim
\* returns the free Pending rows (up to the batch size, possibly none) and
\* none of the rows another relay holds.
C25_ClaimSkipsLockedRows ==
    /\ [](\A r \in Relays :
            relay[r].pc = "begun" => PendingBatches(BatchSizeOf(r)) # {})
    /\ [][ \A r \in Relays :
            (relay[r].pc = "begun" /\ relay'[r].pc # "begun" /\ faults' = faults)
            => /\ Range(relay'[r].batch) \cap HeldByOthers(r) = {}
               /\ Len(relay'[r].batch)
                    = Min(BatchSizeOf(r), Cardinality(ClaimableRows))
               /\ (relay'[r].batch = <<>>) = (relay'[r].ret = "empty") ]_vars

\* Relay r2 holds the oldest Pending row and relay r1, whose batch has room
\* for two rows, has claimed only the younger one.
C25_Witness ==
    \E e1, e2 \in EventIds :
        /\ outbox[e1].status = "pending" /\ outboxLock[e1] = "r2"
        /\ outbox[e2].status = "pending"
        /\ outbox[e1].createdAt <= outbox[e2].createdAt
        /\ relay["r1"].pc = "publish"
        /\ relay["r1"].batch = <<e2>>
        /\ relay["r2"].batch = <<e1>>

\* The rows relay r has published and marked in its open transaction.
MarkedIds(r) == {m.id : m \in relay[r].marked}

\* C26: for each outbox row it claims, the relay publishes one message to the
\* configured exchange with the row's event_type as routing key and the row's
\* payload as body, and the row then becomes Published: every publish step
\* sends exactly that message for a claimed row not yet published in the
\* tick, nothing else publishes, and the commit of the tick turns every
\* claimed row, its message sent, into Published.
C26_OneMessagePerClaimedRow ==
    [][ /\ \A r \in Relays :
            (relay[r].pc = "publish" /\ relay'[r].pc = "mark")
            => LET e == relay[r].batch[relay[r].idx]
               IN /\ outboxLock[e] = r
                  /\ e \notin MarkedIds(r)
                  /\ busLog' = busLog \cup
                        {[exchange |-> Exchange,
                          routingKey |-> outbox[e].eventType,
                          body |-> outbox[e].payload]}
                  /\ pubCount' = [pubCount EXCEPT ![e] = @ + 1]
        /\ (pubCount' # pubCount \/ busLog' # busLog)
            => \E r \in Relays :
                  relay[r].pc = "publish" /\ relay'[r].pc = "mark"
        /\ \A r \in Relays :
            (relay[r].pc = "commit" /\ relay'[r].ret = "ok")
            => \A e \in Range(relay[r].batch) :
                  /\ e \in MarkedIds(r)
                  /\ [exchange |-> Exchange,
                      routingKey |-> outbox[e].eventType,
                      body |-> outbox[e].payload] \in busLog
                  /\ outbox[e].status = "pending"
                  /\ outbox'[e].status = "published" ]_vars

\* A tick of relay r1 has committed: the row of event 1 is Published after a
\* single publish, and the broker holds its message with routing key
\* bid.placed and the row's payload as body.
C26_Witness ==
    /\ relay["r1"].pc = "idle" /\ relay["r1"].ret = "ok"
    /\ outbox[1].status = "published"
    /\ pubCount[1] = 1
    /\ busLog = {[exchange |-> Exchange, routingKey |-> "bid.placed",
                  body |-> outbox[1].payload]}

\* PlaceBid call c has no transaction open: no row lock, no pending write.
CallTxClosed(c) ==
    /\ \A i \in Items : c \notin itemLock[i]
    /\ ~call[c].txBid /\ ~call[c].txChb /\ ~call[c].txEv

\* Relay r has no transaction open: no claimed row, no pending status update.
RelayTxClosed(r) ==
    /\ \A e \in EventIds : outboxLock[e] # r
    /\ relay[r].batch = <<>> /\ relay[r].marked = {}

\* Consumer w has no transaction open: no row lock, no pending write.
ConsumerTxClosed(w) ==
    /\ \A u \in Users : w \notin statsLock[u]
    /\ cons[w].txStats = NoStats /\ ~cons[w].txMark

C28_LockedItemEventuallyFree ==
    \A i \in Items : (itemLock[i] # {}) ~> (itemLock[i] = {})

\* A caller hangs holding the row lock of an item and another bidder on the
\* item has given up with the lock timeout.
C28_Witness ==
    \E c, d \in Calls :
        /\ call[c].pc = "hung" /\ c \in itemLock[call[c].item]
        /\ call[d].pc = "done" /\ call[d].result = "LockTimeout"
        /\ call[d].item = call[c].item

\* C29: after the shutdown signal the relay loop eventually returns, and when
\* it has returned the current tick was finished or aborted: the relay holds
\* no claimed row and no pending status update.
C29_CancelledRelayReturns ==
    /\ \A r \in Relays : (r \in ctxDone) ~> (relay[r].pc = "returned")
    /\ [](\A r \in Relays : relay[r].pc = "returned" => RelayTxClosed(r))

\* The relay was cancelled inside a tick, aborted it and returned: the row it
\* had published stays Pending and no lock is left.
C29_Witness ==
    /\ relay["r1"].pc = "returned" /\ relay["r1"].ret = "Cancelled"
    /\ \E e \in EventIds : outbox[e].status = "pending" /\ pubCount[e] = 1
    /\ \A e \in EventIds : outboxLock[e] = NoRelay

\* The status of row e as the transaction of relay r reads it: its own
\* uncommitted update, else the committed value.
RelayTxStatus(r, e) ==
    IF e \in MarkedIds(r) THEN "published" ELSE outbox[e].status

\* C30: every outbox row is created Pending, is set to Processing when a
\* relay claims it and becomes Published on broker ack: a row a relay has
\* claimed and not yet published reads Processing in the relay transaction.
C30_ClaimedRowIsProcessing ==
    \A r \in Relays : \A e \in EventIds :
        (outboxLock[e] = r /\ e \notin MarkedIds(r))
        => RelayTxStatus(r, e) = "processing"

\* Relay r2 has committed a tick: a row it claimed is Published after one
\* publish, while another row is still Pending.
C30_Witness ==
    /\ relay["r2"].pc = "idle" /\ relay["r2"].ret = "ok"
    /\ \E e, f \in EventIds :
          /\ outbox[e].status = "published" /\ pubCount[e] = 1
          /\ outbox[f].status = "pending"

C32_BidOnlyOnActiveItem ==
    [][ \A c \in Calls :
          (call[c].pc = "validate" /\ call'[c].pc = "savebid")
          => itemStatus[call[c].item] = "active" ]_vars

\* A PlaceBid call holds the row of a cancelled item and is about to
\* validate.
C32_Witness ==
    \E c \in Calls :
        /\ call[c].pc = "validate"
        /\ call[c].item \in Items
        /\ itemStatus[call[c].item] = "cancelled"
        /\ c \in itemLock[call[c].item]

\* The rows of relay r's batch whose publish call has returned success in the
\* running tick.
PublishedInTick(r) ==
    {relay[r].batch[j] : j \in {j \in 1 .. Len(relay[r].batch) :
        \/ j < relay[r].idx
        \/ j = relay[r].idx /\ relay[r].pc \in {"mark", "commit"}}}

\* C33: a row is marked Published only after the publish call for its event
\* returned success in the same tick, the marks are committed only after every
\* publish of the batch succeeded, and no row has the committed status
\* Published without its event having been handed to the broker.
C33_MarkOnlyAfterPublish ==
    /\ \A r \in Relays :
          /\ MarkedIds(r) \subseteq PublishedInTick(r)
          /\ \A e \in PublishedInTick(r) :
                pubCount[e] >= 1 /\ EventMessage(e) \in busLog
          /\ relay[r].pc = "commit" =>
                /\ PublishedInTick(r) = Range(relay[r].batch)
                /\ MarkedIds(r) = Range(relay[r].batch)
    /\ \A e \in EventIds :
          outbox[e].status = "published" =>
             pubCount[e] >= 1 /\ EventMessage(e) \in busLog

\* A tick with a batch of two rows is about to commit: both events were
\* handed to the broker and both rows are marked.
C33_Witness ==
    /\ relay["r1"].pc = "commit"
    /\ Len(relay["r1"].batch) = MaxBatch
    /\ \A e \in Range(relay["r1"].batch) :
          pubCount[e] >= 1 /\ outbox[e].status = "pending"

\* Consumer w is inside ProcessBidPlaced with a delivery of event e.
InFlight(w, e) ==
    /\ cons[w].pc \in {"check", "upsert", "mark", "commit"}
    /\ cons[w].msg.bidId = e

\* C34: when two consumer transactions process the same event concurrently,
\* at most one of them commits the aggregate update and the receipt: they are
\* never both past the upsert, a transaction at its commit has no committed
\* receipt before it, and the other one either sees the receipt at the check
\* (and is acked without a change) or fails on the primary key of
\* processed_events and is requeued; the event counts once in UserStats.
C34_ConcurrentDuplicatesCountOnce ==
    /\ [](\A e \in EventIds : \A w, v \in Consumers :
            (w # v /\ InFlight(w, e) /\ InFlight(v, e))
            => ~(cons[w].pc \in {"mark", "commit"}
                 /\ cons[v].pc \in {"mark", "commit"}))
    /\ [](\A e \in EventIds : \A w \in Consumers :
            (InFlight(w, e) /\ cons[w].pc = "commit") => e \notin processed)
    /\ [][ \A e \in processed : \A w \in Consumers :
            InFlight(w, e) =>
              /\ (cons[w].pc = "check" /\ cons'[w].pc # "check"
                                        /\ faults' = faults)
                 => cons'[w].pc = "ack" /\ stats' = stats
              /\ (cons[w].pc = "mark" /\ cons'[w].pc # "mark")
                 => /\ cons'[w].pc \in {"wait", "off"}
                    /\ queue' = Requeue(queue, cons[w].msg)
                    /\ stats' = stats /\ processed' = processed ]_vars
    /\ [](\A u \in Users :
            stats[u].totalBids = Cardinality(ProcessedEventsOf(u)))

\* Two consumers hold deliveries of the same event; one has committed its
\* receipt and the other, which passed the check before that commit, has
\* made its upsert and is about to fail on the primary key.
C34_Witness ==
    \E w, v \in Consumers : \E e \in EventIds :
        /\ w # v
        /\ InFlight(w, e) /\ cons[w].pc = "mark"
        /\ cons[v].pc = "ack" /\ cons[v].msg.bidId = e
        /\ e \in processed
        /\ stats["u1"].totalBids = 1

\* C35: under any interleaving of CancelItem and PlaceBid on one item a
\* cancel and a bid never both succeed: no item has status cancelled while a
\* committed bid exists for it.
C35_NoCancelledItemWithBid ==
    \A i \in Items :
        itemStatus[i] = "cancelled" => {b \in bids : b.item = i} = {}

\* A CancelItem call has counted no bids of the item and is about to update
\* its status while a PlaceBid call on the same item has committed its bid.
C35_Witness ==
    \E k \in CancelCalls : \E c \in Calls :
        /\ cancel[k].pc = "update"
        /\ call[c].result = "ok"
        /\ call[c].item = cancel[k].item
        /\ \E b \in bids : b.item = cancel[k].item

\* The error getItemByID returns, as the chain of its messages from the
\* outermost to the wrapped cause: pgx.ErrNoRows is replaced by a new error,
\* any other cause (SQLSTATE 55P03 on a lock timeout) is wrapped.
getItemByIDError(cause) ==
    IF cause = "ErrNoRows" THEN <<"item not found">>
    ELSE <<"failed to get item", cause>>

\* The error PlaceBid returns for an outcome of the model: every error of
\* GetItemByIDForUpdate is wrapped as "item not found: %w"; the checks
\* return the sentinel errors of the domain.
PlaceBidError(result) ==
    IF result = "ItemNotFound"
    THEN <<"item not found">> \o getItemByIDError("ErrNoRows")
    ELSE IF result = "LockTimeout"
    THEN <<"item not found">> \o getItemByIDError("55P03")
    ELSE <<result>>

\* The Connect code the handler answers with: errors.Is against the four
\* sentinel errors, CodeInternal for every other error.
ConnectCode(err) ==
    IF "BidTooLow" \in Range(err) \/ "AuctionEnded" \in Range(err)
    THEN "FailedPrecondition"
    ELSE IF "InvalidBidAmount" \in Range(err) THEN "InvalidArgument"
    ELSE IF "SellerCannotBid" \in Range(err) THEN "PermissionDenied"
    ELSE "Internal"

\* C36: PlaceBid on a missing item fails with ItemNotFound and a PlaceBid
\* whose wait for the item's row lock exceeds the lock timeout fails with
\* LockTimeout; the caller can tell the two apart (the lock timeout is not
\* reported as item not found and its code differs from the code of a
\* missing item), and neither call has written a row.
C36_NotFoundAndLockTimeoutDistinct ==
    \A c \in Calls :
        /\ (call[c].pc = "done" /\ call[c].result = "ItemNotFound")
           => /\ Head(PlaceBidError(call[c].result)) = "item not found"
              /\ {b \in bids : b.id = c} = {}
              /\ outbox[c] = NoRow
        /\ (call[c].pc = "done" /\ call[c].result = "LockTimeout")
           => /\ Head(PlaceBidError(call[c].result)) # "item not found"
              /\ ConnectCode(PlaceBidError(call[c].result))
                 # ConnectCode(PlaceBidError("ItemNotFound"))
              /\ {b \in bids : b.id = c} = {}
              /\ outbox[c] = NoRow

\* A call has failed on the lock timeout of a row held by a running call and
\* has written neither a bid row nor an outbox row.
C36_Witness ==
    \E c, d \in Calls :
        /\ c # d
        /\ call[d].pc = "done" /\ call[d].result = "LockTimeout"
        /\ c \in itemLock[call[d].item]
        /\ {b \in bids : b.id = d} = {} /\ outbox[d] = NoRow

\* C37: Register commits the new user row and exactly one Pending
\* user.created outbox row in one transaction, or neither: every committed
\* user has exactly one user.created row, every user.created row has its
\* user, both tables change only in the commit of a Register call, which
\* adds the user and its Pending row together, and a Register that fails or
\* crashes leaves both tables as they were.
C37_UserAndEventTogether ==
    /\ [](\A u \in users :
            Cardinality({e \in userOutbox :
                           e.userId = u.id
                           /\ e.eventType = "user.created"}) = 1)
    /\ [](\A e \in userOutbox : \E u \in users : u.id = e.userId)
    /\ [][ (users' # users \/ userOutbox' # userOutbox)
            => \E g \in RegCalls :
                  /\ reg[g].pc = "commit" /\ reg'[g].result = "ok"
                  /\ users' = users \cup {[id |-> g, email |-> reg[g].email]}
                  /\ [id |-> g, email |-> reg[g].email] \notin users
                  /\ userOutbox' = userOutbox \cup {UserCreatedRow(g)}
                  /\ UserCreatedRow(g) \notin userOutbox ]_vars
    /\ [][ \A g \in RegCalls :
            (reg'[g].pc \in {"done", "crashed"} /\ reg[g].pc # reg'[g].pc
             /\ reg'[g].result # "ok")
            => users' = users /\ userOutbox' = userOutbox ]_vars

\* One Register has committed its user and its Pending user.created row;
\* another crashed inside its transaction and left no row behind.
C37_Witness ==
    \E g, h \in RegCalls :
        /\ reg[g].result = "ok"
        /\ reg[h].pc = "crashed"
        /\ users = {[id |-> g, email |-> reg[g].email]}
        /\ userOutbox = {UserCreatedRow(g)}

\* C38: a refresh token is rotated at most once: after a Refresh with token
\* T has committed, T is revoked, and every other Refresh with T, one that
\* runs concurrently with the first included, fails and issues no new
\* token: of the Refresh calls that presented one token at most one has
\* succeeded, and one valid token at most stems from it.
C38_TokenRotatedAtMostOnce ==
    /\ \A f \in RefreshCalls :
          (refresh[f].pc = "done" /\ refresh[f].result = "ok")
          => tokens[refresh[f].token] = "revoked"
    /\ \A f, g \in RefreshCalls :
          (f # g /\ refresh[f].token = refresh[g].token
           /\ refresh[f].pc = "done" /\ refresh[f].result = "ok"
           /\ refresh[g].pc = "done")
          => /\ refresh[g].result # "ok"
             /\ tokens[g] = "none"

\* A Refresh with token 0 has committed and a later Refresh with the same
\* token was refused at the lookup and issued nothing.
C38_Witness ==
    \E f, g \in RefreshCalls :
        /\ f # g
        /\ refresh[f].token = 0 /\ refresh[f].result = "ok"
        /\ refresh[g].token = 0 /\ refresh[g].result = "InvalidToken"
        /\ tokens[0] = "revoked" /\ tokens[f] = "valid" /\ tokens[g] = "none"

\* C39: in one tick a relay claims and publishes at most batch_size events,
\* however large the Pending backlog is: the batch of a tick has at most
\* batch_size distinct rows, the relay holds the locks of at most that many
\* rows, and every publish of the tick is that of a row of the batch.
C39_TickBoundedByBatchSize ==
    /\ [](\A r \in Relays :
            /\ Len(relay[r].batch) <= BatchSizeOf(r)
            /\ Cardinality(Range(relay[r].batch)) = Len(relay[r].batch)
            /\ Cardinality({e \in EventIds : outboxLock[e] = r})
               <= BatchSizeOf(r)
            /\ Cardinality(PublishedInTick(r)) <= BatchSizeOf(r))
    /\ [][ \A e \in EventIds :
            pubCount'[e] # pubCount[e]
            => /\ pubCount'[e] = pubCount[e] + 1
               /\ \E r \in Relays :
                     /\ relay[r].pc = "publish"
                     /\ relay[r].idx <= BatchSizeOf(r)
                     /\ relay[r].batch[relay[r].idx] = e ]_vars

\* The relay with batch size 1 has claimed and published one row while a
\* second Pending row of the backlog is left unclaimed.
C39_Witness ==
    \E e, f \in EventIds :
        /\ e # f
        /\ relay["r2"].batch = <<e>>
        /\ relay["r2"].pc \in {"mark", "commit"}
        /\ outbox[f].status = "pending" /\ outboxLock[f] = NoRelay
        /\ outbox[e].createdAt <= outbox[f].createdAt

\* C40: no relay execution sets the status of an outbox row to Failed,
\* whatever publish, mark or commit error occurs: no committed row and no
\* row changed by a relay step has status failed, and a tick that returns
\* an error leaves every row as it was.
C40_RelayNeverSetsFailed ==
    /\ [](\A e \in EventIds : outbox[e].status # "failed")
    /\ [][ \A r \in Relays :
            (relay'[r].ret \in {"PublishFailed", "MarkFailed", "CommitFailed",
                                "FetchFailed", "BeginFailed"}
             /\ relay'[r] # relay[r])
            => outbox' = outbox ]_vars
    /\ [][ \A e \in EventIds :
            (outbox[e] # NoRow /\ outbox'[e] # outbox[e])
            => outbox'[e].status = "published" ]_vars

\* A tick has failed at the mark or at the commit after its publish and the
\* rows of its batch are still Pending.
C40_Witness ==
    \E r \in Relays :
        /\ relay[r].ret \in {"MarkFailed", "CommitFailed"}
        /\ relay[r].lost # {}
        /\ \A e \in relay[r].lost :
              outbox[e].status = "pending" /\ pubCount[e] >= 1
====
